---- MODULE Spec2Model ----
(***************************************************************************)
(* Model of the BattleRPG AI battle engine: combatants (Character),        *)
(* rosters (Team), the legality checker, the turn order resolver, the      *)
(* damage resolver, the outcome evaluator, the battle session (BattleState)*)
(* and the orchestrated turn loop (BattleEngine.run_battle).               *)
(*                                                                         *)
(* Eleven families of behaviours are specified over the same variables:    *)
(*   SpecSession   - any sequence of public BattleState operations         *)
(*   SpecTeam      - any sequence of Team operations on roster 1           *)
(*   SpecBattle    - BattleEngine.run_battle (FairBattle adds progress)    *)
(*   SpecTurnOrder - TurnManager.get_first_striker on any inputs           *)
(*   SpecCharacter - any sequence of operations and hits on a Character    *)
(*   SpecValidator - ActionValidator.can_use_ability on any combatant      *)
(*   SpecPreset    - run_battle between teams built by ConfigLoader        *)
(*   SpecAttack    - Character.get_effective_attack under Buff and Debuff  *)
(*   SpecEstimate  - DamageCalculator.estimate_damage on any inputs        *)
(*   SpecTypes     - TypeSystem.get_multiplier on any pair of classes      *)
(*   SpecDriven    - SpecSession without the reset operation               *)
(***************************************************************************)
EXTENDS Integers, Sequences, FiniteSets, TLC

VARIABLES
    chars,            \* chars[t][i]: the Character at index i of team t
    active_index,     \* Team.active_index of each team
    current_cooldown, \* Ability.current_cooldown of each Ability object
    phase,            \* BattleState.phase
    current_turn,     \* BattleState.current_turn
    winner_id,        \* BattleState.winner_id (None when unset)
    action_history,   \* BattleState.action_history
    max_turns,        \* BattleState.max_turns
    pc,               \* position of the driver in run_battle
    decided,          \* action1 / action2 of the current turn
    first_player,     \* result of get_first_striker for the current turn
    op,               \* observation: the operation performed by the last step
    raised,           \* observation: the exception raised by the last step
    result,           \* observation: the value returned by the last step
    last              \* observation: what the last call did or was given

vars == <<chars, active_index, current_cooldown, phase, current_turn, winner_id,
          action_history, max_turns, pc, decided, first_player, op, raised,
          result, last>>

teamVars == <<chars, active_index, current_cooldown>>
sessionVars == <<phase, current_turn, winner_id, action_history, max_turns>>
loopVars == <<pc, decided, first_player, last>>

\* Python None where an integer is expected (winner_id unset, no winner yet)
None == 0
\* Python None where an Ability is expected (a basic attack)
NoAbility == "none"
Teams == {1, 2}
Idx == 0 .. 2

Max(a, b) == IF a >= b THEN a ELSE b
Min(a, b) == IF a <= b THEN a ELSE b

(***************************************************************************)
(* Bounds of the model.                                                    *)
(***************************************************************************)
\* largest max_turns a session is created with
MaxTurnsBound == 2
\* largest number of ledger entries record_action is driven to in SpecSession
MaxLedger == 2
\* no further hit is drawn once a living combatant has received, or an
\* attacker has dealt, this much
DamageTotalBound == 2
\* Poison is not applied again to a combatant whose Poison has this stack count
PoisonStackBound == 1

(***************************************************************************)
(* stats.py: enumerations and the status effect registry.                  *)
(***************************************************************************)
CharacterClass == {"warrior", "mage", "rogue", "tank", "support"}
StatusEffect == {"burn", "poison", "stun", "shield", "buff", "debuff"}
ActionType == {"attack", "use_ability", "switch", "item"}
BattlePhase == {"not_started", "in_progress", "finished"}

BurnDuration == 3
BurnDamagePercent == 5
PoisonDuration == 4
PoisonInitialPercent == 5
PoisonIncrementPercent == 5
StunDuration == 1
ShieldDuration == 2
ShieldReductionPercent == 50
BuffDuration == 3
BuffAttackPercent == 130
DebuffDuration == 3
DebuffAttackPercent == 70

\* STATUS_EFFECT_CONFIG[effect]["duration"]
EffectDuration(effect) ==
    CASE effect = "burn" -> BurnDuration
      [] effect = "poison" -> PoisonDuration
      [] effect = "stun" -> StunDuration
      [] effect = "shield" -> ShieldDuration
      [] effect = "buff" -> BuffDuration
      [] effect = "debuff" -> DebuffDuration

\* the products x * (p / 100) of the model's range (x up to 300) that the
\* binary floating-point multiplication leaves just below the integer the
\* exact product is: int(90 * 0.7) is 62
FloatShort == { <<90, 70>>, <<170, 70>>, <<180, 70>> }

\* int(x * p) for a percentage p: Python truncates the floating-point
\* product, x is never negative here
PercentOf(x, p) ==
    IF <<x, p>> \in FloatShort THEN (x * p) \div 100 - 1 ELSE (x * p) \div 100

(***************************************************************************)
(* character.py: Character.  The operations are functions from a character *)
(* record to the updated record and the returned value.                    *)
(***************************************************************************)
is_alive(c) == c.current_hp > 0

has_status_effect(c, effect) ==
    \E k \in 1 .. Len(c.active_effects) : c.active_effects[k].effect = effect

is_stunned(c) == has_status_effect(c, "stun")

\* take_damage that forgets to clamp the damage to the remaining HP
take_damage_unclamped(c, damage) ==
    LET afterDefense == Max(1, damage - c.stats.defense)
        actual == IF has_status_effect(c, "shield")
                  THEN Max(1, PercentOf(afterDefense, 100 - ShieldReductionPercent))
                  ELSE afterDefense
    IN  [char |-> [c EXCEPT !.current_hp = @ - actual,
                            !.total_damage_received = @ + actual],
         ret |-> actual]

take_damage(c, damage) ==
    LET afterDefense == Max(1, damage - c.stats.defense)
        shielded == IF has_status_effect(c, "shield")
                    THEN Max(1, PercentOf(afterDefense, 100 - ShieldReductionPercent))
                    ELSE afterDefense
        actual == Min(shielded, c.current_hp)
    IN  [char |-> [c EXCEPT !.current_hp = @ - actual,
                            !.total_damage_received = @ + actual],
         ret |-> actual]

\* heal that forgets the cap at the maximum HP
heal_uncapped(c, amount) ==
    IF ~is_alive(c)
    THEN [char |-> c, ret |-> 0]
    ELSE [char |-> [c EXCEPT !.current_hp = @ + amount], ret |-> amount]

\* heal that brings a fainted combatant back with 1 HP
heal_reviving(c, amount) ==
    IF ~is_alive(c)
    THEN [char |-> [c EXCEPT !.current_hp = 1], ret |-> 1]
    ELSE LET new == Min(c.stats.hp, c.current_hp + amount)
         IN  [char |-> [c EXCEPT !.current_hp = new], ret |-> new - c.current_hp]

\* heal without the is_alive test
heal_the_fainted(c, amount) ==
    LET new == Min(c.stats.hp, c.current_hp + amount)
    IN  [char |-> [c EXCEPT !.current_hp = new], ret |-> new - c.current_hp]

heal(c, amount) ==
    IF ~is_alive(c)
    THEN [char |-> c, ret |-> 0]
    ELSE LET new == Min(c.stats.hp, c.current_hp + amount)
         IN  [char |-> [c EXCEPT !.current_hp = new], ret |-> new - c.current_hp]

\* index of the first active effect of the kind, 0 when there is none
FirstEffect(effs, effect) ==
    IF \E k \in 1 .. Len(effs) : effs[k].effect = effect
    THEN CHOOSE k \in 1 .. Len(effs) :
            /\ effs[k].effect = effect
            /\ \A j \in 1 .. k - 1 : effs[j].effect # effect
    ELSE 0

\* apply_status_effect that adds a new instance even when the kind is active
apply_status_effect_always_appends(c, effect) ==
    [c EXCEPT !.active_effects =
        Append(@, [effect |-> effect,
                   duration |-> EffectDuration(effect),
                   stack_count |-> 0])]

apply_status_effect(c, effect) ==
    LET k == FirstEffect(c.active_effects, effect)
    IN  IF k # 0
        THEN [c EXCEPT !.active_effects[k].duration = EffectDuration(effect),
                       !.active_effects[k].stack_count =
                           IF effect = "poison" THEN @ + 1 ELSE @]
        ELSE [c EXCEPT !.active_effects =
                 Append(@, [effect |-> effect,
                            duration |-> EffectDuration(effect),
                            stack_count |-> 0])]

RemoveAt(s, k) == SubSeq(s, 1, k - 1) \o SubSeq(s, k + 1, Len(s))

remove_status_effect(c, effect) ==
    LET k == FirstEffect(c.active_effects, effect)
    IN  IF k # 0 THEN [c EXCEPT !.active_effects = RemoveAt(@, k)] ELSE c

\* the loop body that adds to the Poison stack before computing the damage
EffectStep_stack_first(acc, maxhp, k) ==
    LET e == acc.effs[k]
        stack == IF e.effect = "poison" THEN e.stack_count + 1 ELSE e.stack_count
        percent == IF e.effect = "burn" THEN BurnDamagePercent
                   ELSE PoisonInitialPercent + PoisonIncrementPercent * stack
        damaging == e.effect \in {"burn", "poison"}
        actual == IF damaging THEN Min(PercentOf(maxhp, percent), acc.hp) ELSE 0
        e2 == [e EXCEPT !.stack_count = stack, !.duration = @ - 1]
    IN  [hp |-> acc.hp - actual,
         effs |-> [acc.effs EXCEPT ![k] = e2],
         dmg |-> IF damaging
                 THEN [x \in DOMAIN acc.dmg \cup {e.effect} |->
                          IF x = e.effect THEN actual ELSE acc.dmg[x]]
                 ELSE acc.dmg,
         rem |-> IF e2.duration <= 0 THEN Append(acc.rem, e.effect) ELSE acc.rem]

\* the body of the for loop of process_status_effects for the effect at k;
\* acc carries current_hp, the effects, damage_by_effect and effects_to_remove
EffectStep(acc, maxhp, k) ==
    LET e == acc.effs[k]
        percent == IF e.effect = "burn" THEN BurnDamagePercent
                   ELSE PoisonInitialPercent + PoisonIncrementPercent * e.stack_count
        damaging == e.effect \in {"burn", "poison"}
        actual == IF damaging THEN Min(PercentOf(maxhp, percent), acc.hp) ELSE 0
        stack == IF e.effect = "poison" THEN e.stack_count + 1 ELSE e.stack_count
        e2 == [e EXCEPT !.stack_count = stack, !.duration = @ - 1]
    IN  [hp |-> acc.hp - actual,
         effs |-> [acc.effs EXCEPT ![k] = e2],
         dmg |-> IF damaging
                 THEN [x \in DOMAIN acc.dmg \cup {e.effect} |->
                          IF x = e.effect THEN actual ELSE acc.dmg[x]]
                 ELSE acc.dmg,
         rem |-> IF e2.duration <= 0 THEN Append(acc.rem, e.effect) ELSE acc.rem]

RECURSIVE EffectLoop(_, _, _)
EffectLoop(acc, maxhp, k) ==
    IF k > Len(acc.effs) THEN acc
    ELSE EffectLoop(EffectStep(acc, maxhp, k), maxhp, k + 1)

RECURSIVE RemoveAll(_, _)
RemoveAll(c, rem) ==
    IF rem = << >> THEN c
    ELSE RemoveAll(remove_status_effect(c, Head(rem)), Tail(rem))

\* process_status_effects that forgets to remove the expired effects
process_status_effects_keeps_expired(c) ==
    LET acc == EffectLoop([hp |-> c.current_hp, effs |-> c.active_effects,
                           dmg |-> << >>, rem |-> << >>], c.stats.hp, 1)
    IN  [char |-> [c EXCEPT !.current_hp = acc.hp, !.active_effects = acc.effs],
         ret |-> acc.dmg]

\* returns the updated character and damage_by_effect (a function on the kinds
\* that dealt damage; its domain is empty when the returned dict is empty)
process_status_effects(c) ==
    LET acc == EffectLoop([hp |-> c.current_hp, effs |-> c.active_effects,
                           dmg |-> << >>, rem |-> << >>], c.stats.hp, 1)
        ticked == [c EXCEPT !.current_hp = acc.hp, !.active_effects = acc.effs]
    IN  [char |-> RemoveAll(ticked, acc.rem), ret |-> acc.dmg]

\* get_effective_attack that applies the Debuff before the Buff
get_effective_attack_debuff_first(c) ==
    LET debuffed == IF has_status_effect(c, "debuff")
                    THEN PercentOf(c.stats.attack, DebuffAttackPercent)
                    ELSE c.stats.attack
    IN  IF has_status_effect(c, "buff")
        THEN PercentOf(debuffed, BuffAttackPercent)
        ELSE debuffed

get_effective_attack(c) ==
    LET buffed == IF has_status_effect(c, "buff")
                  THEN PercentOf(c.stats.attack, BuffAttackPercent)
                  ELSE c.stats.attack
    IN  IF has_status_effect(c, "debuff")
        THEN PercentOf(buffed, DebuffAttackPercent)
        ELSE buffed

(***************************************************************************)
(* ability.py: Ability.  An Ability object is named by its identifier;     *)
(* its fields other than current_cooldown never change.                    *)
(***************************************************************************)
\* the Ability objects of the model: identifier -> definition
AbilityDefs ==
    [fireball |->
        [name |-> "Fireball", cooldown |-> 2, priority |-> 0,
         required_class |-> "mage",
         effects |-> << [effect_type |-> "damage", value |-> 40,
                         status_effect |-> "none", probability |-> 100,
                         target |-> "opponent"],
                        [effect_type |-> "status", value |-> 0,
                         status_effect |-> "burn", probability |-> 30,
                         target |-> "opponent"] >>],
     quick_attack |->
        [name |-> "Quick Attack", cooldown |-> 0, priority |-> 1,
         required_class |-> "none",
         effects |-> << [effect_type |-> "damage", value |-> 30,
                         status_effect |-> "none", probability |-> 100,
                         target |-> "opponent"] >>],
     shield_bash |->
        [name |-> "Shield Bash", cooldown |-> 3, priority |-> 0,
         required_class |-> "tank",
         effects |-> << [effect_type |-> "damage", value |-> 35,
                         status_effect |-> "none", probability |-> 100,
                         target |-> "opponent"],
                        [effect_type |-> "status", value |-> 0,
                         status_effect |-> "stun", probability |-> 20,
                         target |-> "opponent"] >>]]

AbilityIds == DOMAIN AbilityDefs

is_available(cd, a) == cd[a] = 0

\* Ability.use: the cooldown map after the call
use(cd, a) ==
    IF ~is_available(cd, a) THEN cd ELSE [cd EXCEPT ![a] = AbilityDefs[a].cooldown]

reduce_cooldown(cd, a) == [cd EXCEPT ![a] = Max(0, @ - 1)]

can_be_used_by(a, char_class) ==
    IF AbilityDefs[a].required_class = "none" THEN TRUE
    ELSE AbilityDefs[a].required_class = char_class

RECURSIVE SumValues(_, _)
SumValues(effects, effect_type) ==
    IF effects = << >> THEN 0
    ELSE (IF Head(effects).effect_type = effect_type THEN Head(effects).value ELSE 0)
         + SumValues(Tail(effects), effect_type)

get_damage_value(a) == SumValues(AbilityDefs[a].effects, "damage")

get_heal_value(a) == SumValues(AbilityDefs[a].effects, "heal")

RECURSIVE StatusOf(_)
StatusOf(effects) ==
    IF effects = << >> THEN << >>
    ELSE (IF Head(effects).effect_type = "status" /\ Head(effects).status_effect # "none"
          THEN << Head(effects).status_effect >> ELSE << >>)
         \o StatusOf(Tail(effects))

get_status_effects(a) == StatusOf(AbilityDefs[a].effects)

(***************************************************************************)
(* team.py: Team.  A team is the record of its characters and active_index.*)
(***************************************************************************)
TeamOf(t) == [characters |-> chars[t], active_index |-> active_index[t]]

active_character(tm) == tm.characters[tm.active_index]

\* switch_character that forgets to clear the flag of the old active character
switch_character_keeps_flag(tm, new_index) ==
    IF new_index < 0 \/ new_index >= 3 THEN [team |-> tm, ret |-> FALSE]
    ELSE IF new_index = tm.active_index THEN [team |-> tm, ret |-> FALSE]
    ELSE IF ~is_alive(tm.characters[new_index]) THEN [team |-> tm, ret |-> FALSE]
    ELSE [team |-> [characters |->
                       [i \in Idx |->
                          IF i = new_index
                          THEN [tm.characters[i] EXCEPT !.is_active = TRUE]
                          ELSE tm.characters[i]],
                    active_index |-> new_index],
          ret |-> TRUE]

\* switch_character that does not check that the target is alive
switch_character_to_fainted(tm, new_index) ==
    IF new_index < 0 \/ new_index >= 3 THEN [team |-> tm, ret |-> FALSE]
    ELSE IF new_index = tm.active_index THEN [team |-> tm, ret |-> FALSE]
    ELSE [team |-> [characters |->
                       [i \in Idx |->
                          IF i = new_index
                          THEN [tm.characters[i] EXCEPT !.is_active = TRUE]
                          ELSE IF i = tm.active_index
                          THEN [tm.characters[i] EXCEPT !.is_active = FALSE]
                          ELSE tm.characters[i]],
                    active_index |-> new_index],
          ret |-> TRUE]

switch_character(tm, new_index) ==
    IF new_index < 0 \/ new_index >= 3 THEN [team |-> tm, ret |-> FALSE]
    ELSE IF new_index = tm.active_index THEN [team |-> tm, ret |-> FALSE]
    ELSE IF ~is_alive(tm.characters[new_index]) THEN [team |-> tm, ret |-> FALSE]
    ELSE [team |-> [characters |->
                       [i \in Idx |->
                          IF i = new_index
                          THEN [tm.characters[i] EXCEPT !.is_active = TRUE]
                          ELSE IF i = tm.active_index
                          THEN [tm.characters[i] EXCEPT !.is_active = FALSE]
                          ELSE tm.characters[i]],
                    active_index |-> new_index],
          ret |-> TRUE]

\* the index of the first character with the name, -1 when there is none
IndexOfName(tm, character_name) ==
    IF \E i \in Idx : tm.characters[i].name = character_name
    THEN CHOOSE i \in Idx :
            /\ tm.characters[i].name = character_name
            /\ \A j \in Idx : j < i => tm.characters[j].name # character_name
    ELSE -1

switch_to_character(tm, character_name) ==
    LET i == IndexOfName(tm, character_name)
    IN  IF i >= 0 THEN switch_character(tm, i) ELSE [team |-> tm, ret |-> FALSE]

\* auto_switch_on_faint that sends in the last living character of the roster
auto_switch_on_faint_last(tm) ==
    IF is_alive(active_character(tm)) THEN [team |-> tm, ret |-> tm.active_index]
    ELSE LET alive == {i \in Idx : i # tm.active_index /\ is_alive(tm.characters[i])}
         IN  IF alive = {} THEN [team |-> tm, ret |-> -1]
             ELSE LET i == CHOOSE i \in alive : \A j \in alive : i >= j
                      sw == switch_character(tm, i)
                  IN  [team |-> sw.team, ret |-> sw.team.active_index]

\* ret is the index of the returned character, None (as -1) when the team is defeated
auto_switch_on_faint(tm) ==
    IF is_alive(active_character(tm)) THEN [team |-> tm, ret |-> tm.active_index]
    ELSE LET alive == {i \in Idx : i # tm.active_index /\ is_alive(tm.characters[i])}
         IN  IF alive = {} THEN [team |-> tm, ret |-> -1]
             ELSE LET i == CHOOSE i \in alive : \A j \in alive : i <= j
                      sw == switch_character(tm, i)
                  IN  [team |-> sw.team, ret |-> sw.team.active_index]

is_defeated(tm) == \A i \in Idx : ~is_alive(tm.characters[i])

get_alive_count(tm) == Cardinality({i \in Idx : is_alive(tm.characters[i])})

get_total_hp(tm) ==
    tm.characters[0].current_hp + tm.characters[1].current_hp
        + tm.characters[2].current_hp

(***************************************************************************)
(* type_system.py: TypeSystem.  Multipliers are kept as halves:            *)
(* 1 is 0.5, 2 is 1.0, 3 is 1.5.                                           *)
(***************************************************************************)
\* an effectiveness table without the entry of Mage against Tank
get_multiplier_without_mage_tank(attacker_class, defender_class) ==
    CASE attacker_class = "warrior" /\ defender_class = "rogue" -> 3
      [] attacker_class = "warrior" /\ defender_class = "mage" -> 1
      [] attacker_class = "rogue" /\ defender_class = "mage" -> 3
      [] attacker_class = "rogue" /\ defender_class = "warrior" -> 1
      [] attacker_class = "mage" /\ defender_class = "warrior" -> 3
      [] attacker_class = "mage" /\ defender_class = "rogue" -> 1
      [] attacker_class = "warrior" /\ defender_class = "tank" -> 1
      [] attacker_class = "rogue" /\ defender_class = "tank" -> 1
      [] OTHER -> 2

get_multiplier(attacker_class, defender_class) ==
    CASE attacker_class = "warrior" /\ defender_class = "rogue" -> 3
      [] attacker_class = "warrior" /\ defender_class = "mage" -> 1
      [] attacker_class = "rogue" /\ defender_class = "mage" -> 3
      [] attacker_class = "rogue" /\ defender_class = "warrior" -> 1
      [] attacker_class = "mage" /\ defender_class = "warrior" -> 3
      [] attacker_class = "mage" /\ defender_class = "rogue" -> 1
      [] attacker_class = "warrior" /\ defender_class = "tank" -> 1
      [] attacker_class = "rogue" /\ defender_class = "tank" -> 1
      [] attacker_class = "mage" /\ defender_class = "tank" -> 3
      [] OTHER -> 2

(***************************************************************************)
(* action_validator.py: ActionValidator.  Each check returns <<ok, reason>>.*)
(***************************************************************************)
can_attack(c) ==
    IF ~is_alive(c) THEN <<FALSE, "Character is fainted">>
    ELSE IF is_stunned(c) THEN <<FALSE, "Character is stunned">>
    ELSE <<TRUE, "">>

\* can_use_ability that checks the class restriction before the cooldown
can_use_ability_class_first(c, cd, a) ==
    IF ~can_attack(c)[1] THEN <<FALSE, can_attack(c)[2]>>
    ELSE IF ~can_be_used_by(a, c.char_class)
         THEN <<FALSE, "Character class cannot use this ability">>
    ELSE IF ~is_available(cd, a) THEN <<FALSE, "Ability is on cooldown">>
    ELSE <<TRUE, "">>

\* the reasons carry the fixed part of the message of the code (the cooldown
\* message goes on with the number of turns left, the class message names
\* the class)

can_use_ability(c, cd, a) ==
    IF ~can_attack(c)[1] THEN <<FALSE, can_attack(c)[2]>>
    ELSE IF ~is_available(cd, a) THEN <<FALSE, "Ability is on cooldown">>
    ELSE IF ~can_be_used_by(a, c.char_class)
         THEN <<FALSE, "Character class cannot use this ability">>
    ELSE <<TRUE, "">>

can_switch(tm, target_index) ==
    IF target_index < 0 \/ target_index >= 3 THEN <<FALSE, "Invalid character index">>
    ELSE IF target_index = tm.active_index
         THEN <<FALSE, "Character is already active">>
    ELSE IF ~is_alive(tm.characters[target_index])
         THEN <<FALSE, "Character is fainted">>
    ELSE <<TRUE, "">>

(***************************************************************************)
(* turn_manager.py: TurnManager.get_first_striker.  ability1 and ability2  *)
(* are Ability identifiers or NoAbility.                                   *)
(***************************************************************************)
\* get_first_striker that compares the speeds before the priorities
get_first_striker_speed_first(char1, char2, ability1, ability2) ==
    LET priority1 == IF ability1 # NoAbility THEN AbilityDefs[ability1].priority ELSE 0
        priority2 == IF ability2 # NoAbility THEN AbilityDefs[ability2].priority ELSE 0
    IN  IF char1.stats.speed > char2.stats.speed THEN 1
        ELSE IF char2.stats.speed > char1.stats.speed THEN 2
        ELSE IF priority1 > priority2 THEN 1
        ELSE IF priority2 > priority1 THEN 2
        ELSE 1

get_first_striker(char1, char2, ability1, ability2) ==
    LET priority1 == IF ability1 # NoAbility THEN AbilityDefs[ability1].priority ELSE 0
        priority2 == IF ability2 # NoAbility THEN AbilityDefs[ability2].priority ELSE 0
    IN  IF priority1 > priority2 THEN 1
        ELSE IF priority2 > priority1 THEN 2
        ELSE IF char1.stats.speed > char2.stats.speed THEN 1
        ELSE IF char2.stats.speed > char1.stats.speed THEN 2
        ELSE 1

(***************************************************************************)
(* damage_calculator.py: DamageCalculator.  random_factor is the sampled   *)
(* variance factor in percent (100 when use_random_variance is off).       *)
(***************************************************************************)
\* the values random.uniform(1 - 0.1, 1 + 0.1) is sampled at, in percent
RandomFactors == {90, 100, 110}

DamageOf(base_damage, attacker, defender, random_factor) ==
    LET type_multiplier == get_multiplier(attacker.char_class, defender.char_class)
        typed_damage == (base_damage * type_multiplier) \div 2
        damage_after_defense == Max(1, typed_damage - defender.stats.defense)
        final_damage == Max(1, PercentOf(damage_after_defense, random_factor))
    IN  [base_damage |-> base_damage, type_multiplier |-> type_multiplier,
         final_damage |-> final_damage,
         effectiveness |-> IF type_multiplier >= 3 THEN "Super effective!"
                           ELSE IF type_multiplier <= 1 THEN "Not very effective..."
                           ELSE "Normal"]

calculate_basic_attack_damage(attacker, defender, random_factor) ==
    DamageOf(get_effective_attack(attacker), attacker, defender, random_factor)

calculate_ability_damage(attacker, defender, a, random_factor) ==
    DamageOf(get_damage_value(a), attacker, defender, random_factor)

\* the variance factor, in percent, of DamageCalculator(use_random_variance=False)
NoVariance == 100

\* DamageCalculator.random_variance, in percent
RandomVariancePercent == 10

\* estimate_damage that leaves the variance switched off
estimate_damage_not_restoring(use_random_variance, attacker, defender, a) ==
    LET original_variance == use_random_variance
        calculated == IF a = NoAbility
                      THEN calculate_basic_attack_damage(attacker, defender, NoVariance)
                      ELSE calculate_ability_damage(attacker, defender, a, NoVariance)
        base_damage == calculated.final_damage
        min_damage == IF original_variance
                      THEN PercentOf(base_damage, 100 - RandomVariancePercent)
                      ELSE base_damage
        max_damage == IF original_variance
                      THEN PercentOf(base_damage, 100 + RandomVariancePercent)
                      ELSE base_damage
    IN  [use_random_variance |-> FALSE,
         ret |-> <<Max(1, min_damage), Max(1, max_damage)>>]

\* estimate_damage: the calculator's use_random_variance after the call and
\* the returned pair; between saving and restoring the setting the damage is
\* calculated with the variance off
estimate_damage(use_random_variance, attacker, defender, a) ==
    LET original_variance == use_random_variance
        calculated == IF a = NoAbility
                      THEN calculate_basic_attack_damage(attacker, defender, NoVariance)
                      ELSE calculate_ability_damage(attacker, defender, a, NoVariance)
        base_damage == calculated.final_damage
        min_damage == IF original_variance
                      THEN PercentOf(base_damage, 100 - RandomVariancePercent)
                      ELSE base_damage
        max_damage == IF original_variance
                      THEN PercentOf(base_damage, 100 + RandomVariancePercent)
                      ELSE base_damage
    IN  [use_random_variance |-> original_variance,
         ret |-> <<Max(1, min_damage), Max(1, max_damage)>>]

\* apply_damage that credits the attacker with the computed damage
apply_damage_computed(attacker, defender, damage_result) ==
    LET hit == take_damage(defender, damage_result.final_damage)
    IN  [attacker |-> [attacker EXCEPT !.total_damage_dealt =
                                           @ + damage_result.final_damage],
         defender |-> hit.char,
         ret |-> hit.ret]

apply_damage(attacker, defender, damage_result) ==
    LET hit == take_damage(defender, damage_result.final_damage)
    IN  [attacker |-> [attacker EXCEPT !.total_damage_dealt = @ + hit.ret],
         defender |-> hit.char,
         ret |-> hit.ret]

\* a is an Ability identifier, or NoAbility for a basic attack
calculate_and_apply_damage(attacker, defender, a, random_factor) ==
    LET damage_result == IF a = NoAbility
                         THEN calculate_basic_attack_damage(attacker, defender, random_factor)
                         ELSE calculate_ability_damage(attacker, defender, a, random_factor)
        applied == apply_damage(attacker, defender, damage_result)
    IN  [attacker |-> applied.attacker,
         defender |-> applied.defender,
         ret |-> [damage_result EXCEPT !.final_damage = applied.ret]]

(***************************************************************************)
(* victory_checker.py: VictoryChecker.check_victory.                       *)
(***************************************************************************)
\* check_victory comparing the totals with > instead of >=
check_victory_strict(team1, team2) ==
    IF is_defeated(team1) /\ is_defeated(team2)
    THEN (IF get_total_hp(team1) > get_total_hp(team2) THEN 1 ELSE 2)
    ELSE IF is_defeated(team2) THEN 1
    ELSE IF is_defeated(team1) THEN 2
    ELSE None

\* check_victory that names the defeated side as the winner
check_victory_of_the_defeated(team1, team2) ==
    LET team1_defeated == is_defeated(team1)
        team2_defeated == is_defeated(team2)
    IN  IF team1_defeated /\ team2_defeated
        THEN (IF get_total_hp(team1) >= get_total_hp(team2) THEN 1 ELSE 2)
        ELSE IF team2_defeated THEN 2
        ELSE IF team1_defeated THEN 1
        ELSE None

check_victory(team1, team2) ==
    LET team1_defeated == is_defeated(team1)
        team2_defeated == is_defeated(team2)
    IN  IF team1_defeated /\ team2_defeated
        THEN (IF get_total_hp(team1) >= get_total_hp(team2) THEN 1 ELSE 2)
        ELSE IF team2_defeated THEN 1
        ELSE IF team1_defeated THEN 2
        ELSE None

(***************************************************************************)
(* battle_state.py: BattleState.  The operations are functions from the    *)
(* session record b to the updated record (and the exception raised).      *)
(***************************************************************************)
Battle == [current_turn |-> current_turn, phase |-> phase, winner_id |-> winner_id,
           action_history |-> action_history, max_turns |-> max_turns]

SetBattle(b) ==
    /\ current_turn' = b.current_turn
    /\ phase' = b.phase
    /\ winner_id' = b.winner_id
    /\ action_history' = b.action_history
    /\ max_turns' = b.max_turns

\* BattleState.__init__
NewBattle(n) == [current_turn |-> 0, phase |-> "not_started", winner_id |-> None,
                 action_history |-> << >>, max_turns |-> n]

\* start_battle that leaves current_turn where it was
start_battle_keeps_turn(b) ==
    IF b.phase # "not_started"
    THEN [battle |-> b, raised |-> "RuntimeError"]
    ELSE [battle |-> [b EXCEPT !.phase = "in_progress"], raised |-> "none"]

\* start_battle without the phase check
start_battle_unchecked(b) ==
    [battle |-> [b EXCEPT !.phase = "in_progress", !.current_turn = 1],
     raised |-> "none"]

start_battle(b) ==
    IF b.phase # "not_started"
    THEN [battle |-> b, raised |-> "RuntimeError"]
    ELSE [battle |-> [b EXCEPT !.phase = "in_progress", !.current_turn = 1],
          raised |-> "none"]

\* end_battle that closes the session without storing the winner
end_battle_without_winner(b, winner) ==
    IF b.phase = "finished" THEN b
    ELSE [b EXCEPT !.phase = "finished"]

\* end_battle without the early return
end_battle_overwriting(b, winner) ==
    [b EXCEPT !.phase = "finished", !.winner_id = winner]

end_battle(b, winner) ==
    IF b.phase = "finished" THEN b
    ELSE [b EXCEPT !.phase = "finished", !.winner_id = winner]

\* _resolve_max_turns giving an exact tie to team 2
_resolve_max_turns_tie2(b, team1, team2) ==
    IF get_total_hp(team1) > get_total_hp(team2) THEN end_battle(b, 1)
    ELSE end_battle(b, 2)

_resolve_max_turns(b, team1, team2) ==
    LET team1_hp == get_total_hp(team1)
        team2_hp == get_total_hp(team2)
    IN  IF team1_hp > team2_hp THEN end_battle(b, 1)
        ELSE IF team2_hp > team1_hp THEN end_battle(b, 2)
        ELSE end_battle(b, 1)

\* advance_turn that forgets to increment current_turn
advance_turn_stalled(b, team1, team2) ==
    IF b.phase # "in_progress"
    THEN [battle |-> b, raised |-> "RuntimeError"]
    ELSE [battle |-> IF b.current_turn > b.max_turns
                     THEN _resolve_max_turns(b, team1, team2)
                     ELSE b,
          raised |-> "none"]

\* advance_turn that resolves the session one turn too late
advance_turn_one_late(b, team1, team2) ==
    IF b.phase # "in_progress"
    THEN [battle |-> b, raised |-> "RuntimeError"]
    ELSE LET b2 == [b EXCEPT !.current_turn = @ + 1]
         IN  [battle |-> IF b2.current_turn > b2.max_turns + 1
                         THEN _resolve_max_turns(b2, team1, team2)
                         ELSE b2,
              raised |-> "none"]

\* advance_turn without the phase check
advance_turn_unchecked(b, team1, team2) ==
    LET b2 == [b EXCEPT !.current_turn = @ + 1]
    IN  [battle |-> IF b2.current_turn > b2.max_turns
                    THEN [b2 EXCEPT !.phase = "finished",
                                    !.winner_id = IF get_total_hp(team2) > get_total_hp(team1)
                                                  THEN 2 ELSE 1]
                    ELSE b2,
         raised |-> "none"]

advance_turn(b, team1, team2) ==
    IF b.phase # "in_progress"
    THEN [battle |-> b, raised |-> "RuntimeError"]
    ELSE LET b2 == [b EXCEPT !.current_turn = @ + 1]
         IN  [battle |-> IF b2.current_turn > b2.max_turns
                         THEN _resolve_max_turns(b2, team1, team2)
                         ELSE b2,
              raised |-> "none"]

get_battle_summary(b, team1, team2) ==
    [total_turns |-> b.current_turn,
     winner_id |-> b.winner_id,
     team1_final_hp |-> get_total_hp(team1),
     team2_final_hp |-> get_total_hp(team2),
     team1_alive |-> get_alive_count(team1),
     team2_alive |-> get_alive_count(team2),
     total_actions |-> Len(b.action_history),
     phase |-> b.phase]

\* record_action that files the new entry at the head of the ledger
record_action_at_head(b, rec) ==
    [b EXCEPT !.action_history =
        << [turn_number |-> b.current_turn,
            player_id |-> rec.player_id,
            character_name |-> rec.character_name,
            action_type |-> rec.action_type,
            target_name |-> rec.target_name,
            damage_dealt |-> rec.damage_dealt,
            ability_used |-> rec.ability_used,
            result_description |-> rec.result_description] >> \o @]

\* rec carries the arguments of record_action (names instead of objects)
record_action(b, rec) ==
    [b EXCEPT !.action_history =
        Append(@, [turn_number |-> b.current_turn,
                   player_id |-> rec.player_id,
                   character_name |-> rec.character_name,
                   action_type |-> rec.action_type,
                   target_name |-> rec.target_name,
                   damage_dealt |-> rec.damage_dealt,
                   ability_used |-> rec.ability_used,
                   result_description |-> rec.result_description])]

reset(b) ==
    [b EXCEPT !.current_turn = 0, !.phase = "not_started", !.winner_id = None,
              !.action_history = << >>]

is_in_progress(b) == b.phase = "in_progress"

is_finished(b) == b.phase = "finished"

(***************************************************************************)
(* Construction: Character.__init__, Team.__init__ and the rosters the     *)
(* behaviours start from.  The cast is an input of the model: every        *)
(* combatant has 41 HP, so that Burn and Poison deal 2 HP and more a tick. *)
(***************************************************************************)
NewCharacter(name, char_class, stats, abilities) ==
    [name |-> name, char_class |-> char_class, stats |-> stats,
     current_hp |-> stats.hp, abilities |-> abilities, active_effects |-> << >>,
     is_active |-> FALSE, total_damage_dealt |-> 0, total_damage_received |-> 0]

\* Team.__init__: the characters as stored (the first one marked active)
NewTeam(characters) ==
    [characters |-> [i \in Idx |->
                        IF i = 0 THEN [characters[i + 1] EXCEPT !.is_active = TRUE]
                        ELSE characters[i + 1]],
     active_index |-> 0]

Stats(hp, attack, defense, speed) ==
    [hp |-> hp, attack |-> attack, defense |-> defense, speed |-> speed]

Cast ==
    [Pyro |-> NewCharacter("Pyro", "mage", Stats(41, 1, 0, 5), << "fireball" >>),
     Brute |-> NewCharacter("Brute", "warrior", Stats(41, 100, 1, 3), << "quick_attack" >>),
     Guard |-> NewCharacter("Guard", "tank", Stats(41, 3, 2, 4), << "shield_bash" >>),
     Medic |-> NewCharacter("Medic", "support", Stats(41, 50, 0, 4), << >>),
     Sage |-> NewCharacter("Sage", "support", Stats(41, 50, 0, 6), << >>),
     Monk |-> NewCharacter("Monk", "support", Stats(41, 46, 0, 2), << >>),
     Knight |-> NewCharacter("Knight", "warrior", Stats(100, 50, 20, 30), << >>),
     Squire |-> NewCharacter("Squire", "warrior", Stats(100, 50, 20, 30), << >>),
     Lancer |-> NewCharacter("Lancer", "warrior", Stats(100, 90, 20, 30), << >>)]

TeamFrom(names) == NewTeam([k \in 1 .. 3 |-> Cast[names[k]]])

NoAction == [action_type |-> "none", ability |-> NoAbility, switch_target |-> -1]

\* nothing observed yet
NoLast == [player |-> 0, actor |-> 0, target |-> 0, kind |-> "none",
           dispatched |-> FALSE, hp_at_dispatch |-> 0, opponent_loss |-> 0,
           switched |-> FALSE, effect_applied |-> FALSE, healed |-> 0,
           target_fainted |-> FALSE]

InitCommon(rosters, turns) ==
    /\ \E r \in rosters :
          /\ chars = [t \in Teams |-> TeamFrom(r[t]).characters]
          /\ active_index = [t \in Teams |-> TeamFrom(r[t]).active_index]
    /\ current_cooldown = [a \in AbilityIds |-> 0]
    /\ \E n \in 1 .. turns :
          /\ current_turn = NewBattle(n).current_turn
          /\ phase = NewBattle(n).phase
          /\ winner_id = NewBattle(n).winner_id
          /\ action_history = NewBattle(n).action_history
          /\ max_turns = NewBattle(n).max_turns
    /\ decided = [t \in Teams |-> NoAction]
    /\ first_player = 0
    /\ op = "init"
    /\ raised = "none"
    /\ result = None
    /\ last = NoLast

SetTeam(t, tm) ==
    /\ chars' = [chars EXCEPT ![t] = tm.characters]
    /\ active_index' = [active_index EXCEPT ![t] = tm.active_index]

(***************************************************************************)
(* SpecSession: the public operations of one BattleState, called in any    *)
(* order, while the combatants of its two teams take damage in between.    *)
(***************************************************************************)
\* the amounts take_damage is called with between the operations
DamageInputs == {45}

\* the rosters of the session
SessionRosters == { << <<"Medic", "Pyro", "Brute">>, <<"Medic", "Guard", "Pyro">> >> }

InitSession == InitCommon(SessionRosters, MaxTurnsBound) /\ pc = "session"

StartBattle ==
    /\ pc = "session"
    /\ SetBattle(start_battle(Battle).battle)
    /\ raised' = start_battle(Battle).raised
    /\ op' = "start_battle"
    /\ result' = None
    /\ UNCHANGED <<teamVars, loopVars>>

EndBattle ==
    /\ pc = "session"
    /\ \E w \in Teams :
          /\ SetBattle(end_battle(Battle, w))
          /\ result' = w
    /\ raised' = "none"
    /\ op' = "end_battle"
    /\ UNCHANGED <<teamVars, loopVars>>

AdvanceTurn ==
    /\ pc = "session"
    /\ SetBattle(advance_turn(Battle, TeamOf(1), TeamOf(2)).battle)
    /\ raised' = advance_turn(Battle, TeamOf(1), TeamOf(2)).raised
    /\ op' = "advance_turn"
    /\ result' = None
    /\ UNCHANGED <<teamVars, loopVars>>

RecordAction ==
    /\ pc = "session"
    /\ Len(action_history) < MaxLedger
    /\ \E p \in Teams, kind \in {"attack"} :
          SetBattle(record_action(Battle,
              [player_id |-> p,
               character_name |-> active_character(TeamOf(p)).name,
               action_type |-> kind,
               target_name |-> IF kind = "attack"
                               THEN active_character(TeamOf(3 - p)).name ELSE "none",
               damage_dealt |-> 0, ability_used |-> "none",
               result_description |-> ""]))
    /\ raised' = "none"
    /\ op' = "record_action"
    /\ result' = None
    /\ UNCHANGED <<teamVars, loopVars>>

Reset ==
    /\ pc = "session"
    /\ SetBattle(reset(Battle))
    /\ raised' = "none"
    /\ op' = "reset"
    /\ result' = None
    /\ UNCHANGED <<teamVars, loopVars>>

CheckVictory ==
    /\ pc = "session"
    /\ result' = check_victory(TeamOf(1), TeamOf(2))
    /\ raised' = "none"
    /\ op' = "check_victory"
    /\ UNCHANGED <<teamVars, sessionVars, loopVars>>

TakeDamage ==
    /\ pc \in {"session", "team"}
    /\ \E t \in Teams, i \in Idx, amount \in DamageInputs :
          chars' = [chars EXCEPT ![t][i] = take_damage(@, amount).char]
    /\ result' = None
    /\ raised' = "none"
    /\ op' = "take_damage"
    /\ UNCHANGED <<active_index, current_cooldown, sessionVars, loopVars>>

NextSession ==
    \/ StartBattle
    \/ EndBattle
    \/ AdvanceTurn
    \/ RecordAction
    \/ Reset
    \/ CheckVictory
    \/ TakeDamage

SpecSession == InitSession /\ [][NextSession]_vars

(***************************************************************************)
(* SpecDriven: a session driven by every public operation but reset.       *)
(***************************************************************************)
NextDriven ==
    \/ StartBattle
    \/ EndBattle
    \/ AdvanceTurn
    \/ RecordAction
    \/ CheckVictory
    \/ TakeDamage

SpecDriven == InitSession /\ [][NextDriven]_vars

(***************************************************************************)

(* SpecTeam: the operations of the two Teams, called in any order, while   *)
(* their combatants take damage in between.                                *)
(***************************************************************************)
\* the indices switch_character is called with
SwitchInputs == -1 .. 3
\* the names switch_to_character is called with
NameInputs == {"Medic", "Pyro", "Brute", "Guard", "Nobody"}

TeamRosters == { << <<"Medic", "Pyro", "Brute">>, <<"Pyro", "Guard", "Pyro">> >> }

InitTeam == InitCommon(TeamRosters, 1) /\ pc = "team"

SwitchCharacter ==
    /\ pc = "team"
    /\ \E t \in Teams, i \in SwitchInputs :
          /\ SetTeam(t, switch_character(TeamOf(t), i).team)
          /\ result' = IF switch_character(TeamOf(t), i).ret THEN 1 ELSE 0
          /\ last' = [NoLast EXCEPT !.player = t, !.target = i]
    /\ raised' = "none"
    /\ op' = "switch_character"
    /\ UNCHANGED <<current_cooldown, sessionVars, pc, decided, first_player>>

SwitchToCharacter ==
    /\ pc = "team"
    /\ \E t \in Teams, n \in NameInputs :
          /\ SetTeam(t, switch_to_character(TeamOf(t), n).team)
          /\ result' = IF switch_to_character(TeamOf(t), n).ret THEN 1 ELSE 0
          /\ last' = [NoLast EXCEPT !.player = t, !.target = IndexOfName(TeamOf(t), n)]
    /\ raised' = "none"
    /\ op' = "switch_to_character"
    /\ UNCHANGED <<current_cooldown, sessionVars, pc, decided, first_player>>

AutoSwitchOnFaint ==
    /\ pc = "team"
    /\ \E t \in Teams :
          /\ SetTeam(t, auto_switch_on_faint(TeamOf(t)).team)
          /\ result' = auto_switch_on_faint(TeamOf(t)).ret
          /\ last' = [NoLast EXCEPT !.player = t, !.actor = active_index[t]]
    /\ raised' = "none"
    /\ op' = "auto_switch_on_faint"
    /\ UNCHANGED <<current_cooldown, sessionVars, pc, decided, first_player>>

NextTeam ==
    \/ SwitchCharacter
    \/ SwitchToCharacter
    \/ AutoSwitchOnFaint
    \/ TakeDamage

SpecTeam == InitTeam /\ [][NextTeam]_vars

(***************************************************************************)
(* demo_battle.py: BattleEngine.  process_player_action and the _execute_  *)
(* methods work on the world w: both teams, the cooldowns of the Ability   *)
(* objects and the session.  ci and oi are the indices of the characters   *)
(* process_player_action read as active when it was entered.               *)
(***************************************************************************)
World == [team |-> [t \in Teams |-> TeamOf(t)], cd |-> current_cooldown,
          battle |-> Battle]

SetWorld(w) ==
    /\ chars' = [t \in Teams |-> w.team[t].characters]
    /\ active_index' = [t \in Teams |-> w.team[t].active_index]
    /\ current_cooldown' = w.cd
    /\ SetBattle(w.battle)

\* the keyword arguments of a record_action call; "none" stands for None
Rec(player_id, character_name, action_type, target_name, damage_dealt, ability_used, description) ==
    [player_id |-> player_id, character_name |-> character_name,
     action_type |-> action_type, target_name |-> target_name,
     damage_dealt |-> damage_dealt, ability_used |-> ability_used,
     result_description |-> description]

\* the hit that never sends in a replacement
SwitchIfFainted_never(w, o, oi) == w

\* "Verificar si el oponente cayo": the auto switch after a hit
SwitchIfFainted(w, o, oi) ==
    IF ~is_alive(w.team[o].characters[oi])
    THEN [w EXCEPT !.team[o] = auto_switch_on_faint(@).team]
    ELSE w

_execute_attack(w, p, ci, oi, random_factor) ==
    LET o == 3 - p
        character == w.team[p].characters[ci]
        opponent_char == w.team[o].characters[oi]
        hit == calculate_and_apply_damage(character, opponent_char, NoAbility,
                                          random_factor)
        w1 == [w EXCEPT !.team[p].characters[ci] = hit.attacker,
                        !.team[o].characters[oi] = hit.defender,
                        !.battle = record_action(@,
                            Rec(p, character.name, "attack", opponent_char.name,
                                hit.ret.final_damage, "none", hit.ret.effectiveness))]
    IN  SwitchIfFainted(w1, o, oi)

\* the inner loop of "Aplicar efectos de estado" from the k-th AbilityEffect on;
\* pair holds the user and the opponent, target is the variable of the code,
\* roll says whether the samples of random.random() are within the probability
RECURSIVE StatusInner(_, _, _, _, _, _)
StatusInner(pair, target, effects, effect, k, roll) ==
    IF k > Len(effects) THEN pair
    ELSE IF effects[k].status_effect # effect
    THEN StatusInner(pair, target, effects, effect, k + 1, roll)
    ELSE LET target2 == IF effects[k].target = "opponent" THEN "opponent" ELSE target
             within == effects[k].probability >= 100 \/ roll
             pair2 == IF ~within THEN pair
                      ELSE IF target2 = "opponent"
                      THEN [pair EXCEPT !.opp = apply_status_effect(@, effect)]
                      ELSE [pair EXCEPT !.self = apply_status_effect(@, effect)]
         IN  StatusInner(pair2, target2, effects, effect, k + 1, roll)

\* the outer loop over get_status_effects()
RECURSIVE StatusOuter(_, _, _, _)
StatusOuter(pair, a, status_effects, roll) ==
    IF status_effects = << >> THEN pair
    ELSE StatusOuter(StatusInner(pair, "self", AbilityDefs[a].effects,
                                 Head(status_effects), 1, roll),
                     a, Tail(status_effects), roll)

_execute_ability(w, p, ci, oi, action, random_factor, roll) ==
    LET o == 3 - p
        a == action.ability
        character == w.team[p].characters[ci]
        opponent_char == w.team[o].characters[oi]
    IN  IF a = NoAbility THEN w
        ELSE IF ~can_use_ability(character, w.cd, a)[1] THEN w
        ELSE
          LET hit == IF get_damage_value(a) > 0
                     THEN calculate_and_apply_damage(character, opponent_char, a,
                                                     random_factor)
                     ELSE [attacker |-> character, defender |-> opponent_char]
              healed == IF get_heal_value(a) > 0
                        THEN heal(hit.attacker, get_heal_value(a)).char
                        ELSE hit.attacker
              pair == StatusOuter([self |-> healed, opp |-> hit.defender], a,
                                  get_status_effects(a), roll)
              w1 == [w EXCEPT !.cd = use(@, a),
                              !.team[p].characters[ci] = pair.self,
                              !.team[o].characters[oi] = pair.opp,
                              !.battle = record_action(@,
                                  Rec(p, character.name, "use_ability",
                                      opponent_char.name, 0, AbilityDefs[a].name, ""))]
          IN  SwitchIfFainted(w1, o, oi)

\* PlayerAction.switch_target left at None
NoTarget == -1

\* _execute_switch that does not ask can_switch
_execute_switch_unchecked(w, p, action) ==
    LET target_index == action.switch_target
        old_char == active_character(w.team[p])
        tm == w.team[p]
        switched == IF target_index \in Idx
                    THEN [characters |->
                             [i \in Idx |->
                                [tm.characters[i] EXCEPT !.is_active = (i = target_index)]],
                          active_index |-> target_index]
                    ELSE tm
    IN  IF target_index = NoTarget THEN w
        ELSE [w EXCEPT !.team[p] = switched,
                       !.battle = record_action(@,
                           Rec(p, old_char.name, "switch", "none", 0, "none",
                               <<"Switched to", active_character(switched).name>>))]

_execute_switch(w, p, action) ==
    LET target_index == action.switch_target
        old_char == active_character(w.team[p])
        switched == switch_character(w.team[p], target_index).team
    IN  IF target_index = NoTarget THEN w
        ELSE IF ~can_switch(w.team[p], target_index)[1] THEN w
        ELSE [w EXCEPT !.team[p] = switched,
                       !.battle = record_action(@,
                           Rec(p, old_char.name, "switch", "none", 0, "none",
                               <<"Switched to", active_character(switched).name>>))]

\* whether process_player_action gets as far as "Ejecutar accion"
Dispatches(c) ==
    /\ ~is_stunned(c)
    /\ ~(DOMAIN process_status_effects(c).ret # {}
         /\ ~is_alive(process_status_effects(c).char))

process_player_action(w, p, action, random_factor, roll) ==
    LET o == 3 - p
        ci == w.team[p].active_index
        oi == w.team[o].active_index
        character == w.team[p].characters[ci]
        w1 == [w EXCEPT !.team[p].characters[ci] = process_status_effects(character).char]
    IN  IF is_stunned(character)
        THEN [w EXCEPT !.battle = record_action(@,
                 Rec(p, character.name, "attack", "none", 0, "none",
                     "Stunned - cannot act"))]
        ELSE IF ~Dispatches(character) THEN w1
        ELSE IF action.action_type = "attack"
             THEN _execute_attack(w1, p, ci, oi, random_factor)
        ELSE IF action.action_type = "use_ability"
             THEN _execute_ability(w1, p, ci, oi, action, random_factor, roll)
        ELSE IF action.action_type = "switch"
             THEN _execute_switch(w1, p, action)
        ELSE w1

(***************************************************************************)
(* SpecBattle: BattleEngine.run_battle.  pc is the position of the driver: *)
(* "start" before start_battle, "decide" at the top of the while loop,     *)
(* "first" and "second" before the two process_player_action calls, "end"  *)
(* before the cooldown pass, "done" after the loop.                        *)
(***************************************************************************)
\* largest max_turns a battle is run with
BattleTurnsBound == 3

\* the rosters of the two players
BattleRosters == { << <<"Brute", "Pyro", "Medic">>, <<"Guard", "Sage", "Monk">> >> }

InitBattle == InitCommon(BattleRosters, BattleTurnsBound) /\ pc = "start"

\* the switch_target values a decision policy may return: the three indices
\* of the roster and one that is out of range
SwitchTargets == Idx \cup {3}

\* the PlayerActions a decision policy may return for team t
Decisions(t) ==
    {[action_type |-> "attack", ability |-> NoAbility, switch_target |-> NoTarget],
     [action_type |-> "item", ability |-> NoAbility, switch_target |-> NoTarget]}
    \cup {[action_type |-> "use_ability", ability |-> a, switch_target |-> NoTarget] :
             a \in {active_character(TeamOf(t)).abilities[k] :
                       k \in 1 .. Len(active_character(TeamOf(t)).abilities)}}
    \cup {[action_type |-> "switch", ability |-> NoAbility, switch_target |-> i] :
             i \in SwitchTargets}

\* run_battle up to the loop: BattleState(...) was built by Init
RunBattle ==
    /\ pc = "start"
    /\ SetBattle(start_battle(Battle).battle)
    /\ raised' = start_battle(Battle).raised
    /\ pc' = "decide"
    /\ op' = "start_battle"
    /\ result' = None
    /\ UNCHANGED <<teamVars, decided, first_player, last>>

\* the loop test, both decide_action calls and get_first_striker(char1, char2)
Decide ==
    /\ pc = "decide"
    /\ is_in_progress(Battle)
    /\ \E action1 \in Decisions(1), action2 \in Decisions(2) :
          decided' = [t \in Teams |-> IF t = 1 THEN action1 ELSE action2]
    /\ first_player' = get_first_striker(active_character(TeamOf(1)),
                                         active_character(TeamOf(2)),
                                         NoAbility, NoAbility)
    /\ pc' = "first"
    /\ op' = "decide_action"
    /\ raised' = "none"
    /\ result' = None
    /\ UNCHANGED <<teamVars, sessionVars, last>>

\* what a process_player_action call of player p did, from the world before
\* (w) and after (w2) it
Observation(w, w2, p) ==
    LET o == 3 - p
        ci == w.team[p].active_index
        oi == w.team[o].active_index
        character == w.team[p].characters[ci]
        dispatched == Dispatches(character)
    IN  [player |-> p, actor |-> ci, target |-> oi,
         kind |-> IF is_stunned(character) THEN "stunned"
                  ELSE IF ~dispatched THEN "fainted"
                  ELSE decided[p].action_type,
         dispatched |-> dispatched,
         hp_at_dispatch |-> IF dispatched
                            THEN process_status_effects(character).char.current_hp
                            ELSE 0,
         opponent_loss |-> get_total_hp(w.team[o]) - get_total_hp(w2.team[o]),
         switched |-> w2.team[p].active_index # ci,
         effect_applied |-> \E i \in Idx :
                               w2.team[o].characters[i].active_effects
                                   # w.team[o].characters[i].active_effects,
         healed |-> IF dispatched
                    THEN Max(0, w2.team[p].characters[ci].current_hp
                                - process_status_effects(character).char.current_hp)
                    ELSE 0,
         target_fainted |-> /\ is_alive(w.team[o].characters[oi])
                            /\ ~is_alive(w2.team[o].characters[oi])]

\* process_player_action of player p with the action decided for it
Act(p) ==
    \E random_factor \in RandomFactors, roll \in BOOLEAN :
       LET w2 == process_player_action(World, p, decided[p], random_factor, roll)
       IN  /\ SetWorld(w2)
           /\ last' = Observation(World, w2, p)
           /\ decided' = [decided EXCEPT ![p] = NoAction]
           /\ op' = "process_player_action"
           /\ raised' = "none"
           /\ result' = None

\* the first process_player_action call of the turn
ActFirst ==
    /\ pc = "first"
    /\ Act(first_player)
    /\ pc' = "second"
    /\ UNCHANGED first_player

\* "if battle.is_in_progress()" and the second process_player_action call
ActSecond ==
    /\ pc = "second"
    /\ IF is_in_progress(Battle)
       THEN Act(3 - first_player)
       ELSE /\ decided' = [decided EXCEPT ![3 - first_player] = NoAction]
            /\ op' = "skip"
            /\ UNCHANGED <<teamVars, sessionVars, last, raised, result>>
    /\ pc' = "end"
    /\ UNCHANGED first_player

\* reduce_cooldown once for every entry of the abilities list of character i of
\* team t, from its k-th entry on
RECURSIVE ReduceList(_, _, _)
ReduceList(cd, abilities, k) ==
    IF k > Len(abilities) THEN cd
    ELSE ReduceList(reduce_cooldown(cd, abilities[k]), abilities, k + 1)

\* "Reducir cooldowns": both teams, every character, every ability
RECURSIVE ReduceAll(_, _)
ReduceAll(cd, n) ==
    IF n = 6 THEN cd
    ELSE ReduceAll(ReduceList(cd, chars[1 + (n \div 3)][n % 3].abilities, 1), n + 1)

\* the rest of the loop body: cooldowns, check_victory, end_battle or advance_turn
EndTurn ==
    /\ pc = "end"
    /\ current_cooldown' = ReduceAll(current_cooldown, 0)
    /\ LET winner == check_victory(TeamOf(1), TeamOf(2))
       IN  /\ result' = winner
           /\ IF winner # None
              THEN /\ SetBattle(end_battle(Battle, winner))
                   /\ raised' = "none"
                   /\ op' = "end_battle"
                   /\ pc' = "done"
              ELSE /\ SetBattle(advance_turn(Battle, TeamOf(1), TeamOf(2)).battle)
                   /\ raised' = advance_turn(Battle, TeamOf(1), TeamOf(2)).raised
                   /\ op' = "advance_turn"
                   /\ pc' = IF advance_turn(Battle, TeamOf(1), TeamOf(2)).raised = "none"
                            THEN "decide" ELSE "raised"
    /\ first_player' = 0
    /\ UNCHANGED <<chars, active_index, decided, last>>

\* the loop test fails: run_battle returns winner_id
Return ==
    /\ pc = "decide"
    /\ ~is_in_progress(Battle)
    /\ pc' = "done"
    /\ op' = "return"
    /\ result' = winner_id
    /\ raised' = "none"
    /\ UNCHANGED <<teamVars, sessionVars, decided, first_player, last>>

NextBattle ==
    \/ RunBattle
    \/ Decide
    \/ ActFirst
    \/ ActSecond
    \/ EndTurn
    \/ Return

SpecBattle == InitBattle /\ [][NextBattle]_vars

\* the positions of the driver
Positions == {"start", "decide", "first", "second", "end", "done"}

\* a step of the driver: every step of NextBattle moves pc, and one is
\* enabled wherever the driver has not returned
Step == pc # "done" /\ pc' \in Positions \ {pc}

\* run_battle is a sequential program: it takes its next step
FairBattle == SpecBattle /\ WF_pc(Step)

(***************************************************************************)
(* SpecPreset: run_battle between two teams built by                       *)
(* ConfigLoader.create_preset_team.  load_characters gives every character *)
(* that lists an ability name the one Ability object load_abilities built  *)
(* for that name, and create_preset_team copies the list of abilities, not *)
(* the abilities: the two Guards below hold the same Shield Bash object.   *)
(***************************************************************************)
PresetRosters == { << <<"Pyro", "Guard", "Medic">>, <<"Guard", "Sage", "Monk">> >> }

InitPreset == InitCommon(PresetRosters, BattleTurnsBound) /\ pc = "start"

SpecPreset == InitPreset /\ [][NextBattle]_vars

(***************************************************************************)
(* SpecTurnOrder: TurnManager.get_first_striker called with any two        *)
(* combatants of the cast and any two abilities (None for a basic attack). *)
(***************************************************************************)
InitTurnOrder == InitCommon(BattleRosters, 1) /\ pc = "turn_order"

GetFirstStriker ==
    /\ pc = "turn_order"
    /\ \E n1 \in DOMAIN Cast, n2 \in DOMAIN Cast,
          ability1 \in AbilityIds \cup {NoAbility},
          ability2 \in AbilityIds \cup {NoAbility} :
          /\ result' = get_first_striker(Cast[n1], Cast[n2], ability1, ability2)
          /\ last' = [char1 |-> n1, char2 |-> n2,
                      ability1 |-> ability1, ability2 |-> ability2]
    /\ op' = "get_first_striker"
    /\ raised' = "none"
    /\ UNCHANGED <<teamVars, sessionVars, pc, decided, first_player>>

NextTurnOrder == GetFirstStriker

SpecTurnOrder == InitTurnOrder /\ [][NextTurnOrder]_vars

(***************************************************************************)
(* SpecCharacter: the operations of one Character (the first combatant of  *)
(* roster 1), called in any order, and the hits of a DamageCalculator      *)
(* without variance that the first combatant of roster 2 lands on it.      *)
(***************************************************************************)
\* the argument damage of take_damage
AmountInputs == {-5, 50, 200}

\* the argument amount of heal
HealInputs == {0, 40}

\* the argument effect of apply_status_effect
EffectInputs == {"burn", "poison", "shield"}


CharacterRosters == { << <<"Knight", "Medic", "Monk">>, <<"Squire", "Sage", "Guard">> >> }

InitCharacter == InitCommon(CharacterRosters, 1) /\ pc = "character"

\* the Character the operations are called on, and the attacker of the hits
Subject == chars[1][0]
Attacker == chars[2][0]

CallTakeDamage ==
    /\ pc = "character"
    /\ Subject.total_damage_received < DamageTotalBound \/ ~is_alive(Subject)
    /\ \E damage \in AmountInputs :
          /\ chars' = [chars EXCEPT ![1][0] = take_damage(@, damage).char]
          /\ result' = take_damage(Subject, damage).ret
    /\ op' = "take_damage"
    /\ raised' = "none"
    /\ UNCHANGED <<active_index, current_cooldown, sessionVars, loopVars>>

CallHeal ==
    /\ pc = "character"
    /\ \E amount \in HealInputs :
          /\ chars' = [chars EXCEPT ![1][0] = heal(@, amount).char]
          /\ result' = heal(Subject, amount).ret
    /\ op' = "heal"
    /\ raised' = "none"
    /\ UNCHANGED <<active_index, current_cooldown, sessionVars, loopVars>>

CallApplyStatusEffect ==
    /\ pc = "character"
    /\ \E effect \in EffectInputs :
          /\ effect = "poison" /\ has_status_effect(Subject, "poison") =>
                Subject.active_effects[FirstEffect(Subject.active_effects, "poison")]
                    .stack_count < PoisonStackBound
          /\ chars' = [chars EXCEPT ![1][0] = apply_status_effect(@, effect)]
          /\ result' = effect
    /\ op' = "apply_status_effect"
    /\ raised' = "none"
    /\ UNCHANGED <<active_index, current_cooldown, sessionVars, loopVars>>

CallRemoveStatusEffect ==
    /\ pc = "character"
    /\ \E effect \in EffectInputs :
          /\ chars' = [chars EXCEPT ![1][0] = remove_status_effect(@, effect)]
          /\ result' = has_status_effect(Subject, effect)
    /\ op' = "remove_status_effect"
    /\ raised' = "none"
    /\ UNCHANGED <<active_index, current_cooldown, sessionVars, loopVars>>

CallProcessStatusEffects ==
    /\ pc = "character"
    /\ chars' = [chars EXCEPT ![1][0] = process_status_effects(@).char]
    /\ result' = process_status_effects(Subject).ret
    /\ op' = "process_status_effects"
    /\ raised' = "none"
    /\ UNCHANGED <<active_index, current_cooldown, sessionVars, loopVars>>

\* calculate_and_apply_damage(attacker, defender): a basic hit on the Subject
CallCalculateAndApplyDamage ==
    /\ pc = "character"
    /\ Subject.total_damage_received < DamageTotalBound \/ ~is_alive(Subject)
    /\ Attacker.total_damage_dealt < DamageTotalBound
    /\ LET hit == calculate_and_apply_damage(Attacker, Subject, NoAbility, NoVariance)
       IN  /\ chars' = [chars EXCEPT ![1][0] = hit.defender, ![2][0] = hit.attacker]
           /\ result' = hit.ret.final_damage
    /\ op' = "calculate_and_apply_damage"
    /\ raised' = "none"
    /\ UNCHANGED <<active_index, current_cooldown, sessionVars, loopVars>>

NextCharacter ==
    \/ CallTakeDamage
    \/ CallHeal
    \/ CallApplyStatusEffect
    \/ CallRemoveStatusEffect
    \/ CallProcessStatusEffects
    \/ CallCalculateAndApplyDamage

SpecCharacter == InitCharacter /\ [][NextCharacter]_vars

(***************************************************************************)
(* SpecAttack: Character.get_effective_attack asked of a combatant of any  *)
(* base attack while Buff and Debuff are applied, tick and expire.         *)
(***************************************************************************)
AttackLeads == {"Knight", "Lancer", "Brute", "Monk", "Guard"}

AttackRosters ==
    { << <<n, "Medic", "Sage">>, <<"Squire", "Sage", "Guard">> >> : n \in AttackLeads }

AttackEffects == {"buff", "debuff"}

InitAttack == InitCommon(AttackRosters, 1) /\ pc = "attack"

ApplyAttackEffect ==
    /\ pc = "attack"
    /\ \E effect \in AttackEffects :
          /\ chars' = [chars EXCEPT ![1][0] = apply_status_effect(@, effect)]
          /\ result' = effect
    /\ op' = "apply_status_effect"
    /\ raised' = "none"
    /\ UNCHANGED <<active_index, current_cooldown, sessionVars, loopVars>>

TickAttackEffects ==
    /\ pc = "attack"
    /\ chars' = [chars EXCEPT ![1][0] = process_status_effects(@).char]
    /\ result' = process_status_effects(Subject).ret
    /\ op' = "process_status_effects"
    /\ raised' = "none"
    /\ UNCHANGED <<active_index, current_cooldown, sessionVars, loopVars>>

GetEffectiveAttack ==
    /\ pc = "attack"
    /\ result' = get_effective_attack(Subject)
    /\ op' = "get_effective_attack"
    /\ raised' = "none"
    /\ UNCHANGED <<teamVars, sessionVars, loopVars>>

NextAttack ==
    \/ ApplyAttackEffect
    \/ TickAttackEffects
    \/ GetEffectiveAttack

SpecAttack == InitAttack /\ [][NextAttack]_vars

(***************************************************************************)
(* SpecEstimate: DamageCalculator.estimate_damage asked of a calculator    *)
(* built with either setting, for an attacker under Buff and Debuff, any   *)
(* defender of roster 2 and any ability or none, while abilities are used. *)
(* In this family last is the DamageCalculator object.                     *)
(***************************************************************************)
InitEstimate == InitCommon(AttackRosters, 1) /\ pc = "attack"

\* DamageCalculator(use_random_variance = b)
NewCalculator ==
    /\ pc = "attack"
    /\ \E b \in BOOLEAN : last' = [use_random_variance |-> b]
    /\ op' = "DamageCalculator"
    /\ raised' = "none"
    /\ result' = None
    /\ UNCHANGED <<teamVars, sessionVars, pc, decided, first_player>>

\* Ability.use on any ability
UseAnyAbility ==
    /\ pc = "attack"
    /\ \E a \in AbilityIds :
          /\ current_cooldown' = use(current_cooldown, a)
          /\ result' = is_available(current_cooldown, a)
    /\ op' = "use"
    /\ raised' = "none"
    /\ UNCHANGED <<chars, active_index, sessionVars, loopVars>>

EstimateDamage ==
    /\ pc = "attack"
    /\ op # "init" /\ last # NoLast
    /\ \E j \in Idx, a \in AbilityIds \cup {NoAbility} :
          LET est == estimate_damage(last.use_random_variance, Subject, chars[2][j], a)
          IN  /\ result' = est.ret
              /\ last' = [use_random_variance |-> est.use_random_variance]
    /\ op' = "estimate_damage"
    /\ raised' = "none"
    /\ UNCHANGED <<teamVars, sessionVars, pc, decided, first_player>>

NextEstimate ==
    \/ ApplyAttackEffect
    \/ TickAttackEffects
    \/ GetEffectiveAttack
    \/ NewCalculator
    \/ UseAnyAbility
    \/ EstimateDamage

SpecEstimate == InitEstimate /\ [][NextEstimate]_vars

(***************************************************************************)

(* SpecTypes: TypeSystem.get_multiplier asked about any pair of classes.   *)
(***************************************************************************)
InitTypes == InitCommon(AttackRosters, 1) /\ pc = "types"

GetMultiplier ==
    /\ pc = "types"
    /\ \E attacker_class \in CharacterClass, defender_class \in CharacterClass :
          /\ result' = get_multiplier(attacker_class, defender_class)
          /\ last' = [attacker_class |-> attacker_class,
                      defender_class |-> defender_class]
    /\ op' = "get_multiplier"
    /\ raised' = "none"
    /\ UNCHANGED <<teamVars, sessionVars, pc, decided, first_player>>

NextTypes == GetMultiplier

SpecTypes == InitTypes /\ [][NextTypes]_vars

(***************************************************************************)
(* SpecValidator: ActionValidator.can_use_ability asked about any          *)
(* combatant of roster 1 and any ability, while the combatants faint and   *)
(* get stunned and the abilities are used and cool down.                   *)
(***************************************************************************)
ValidatorRosters == { << <<"Pyro", "Guard", "Brute">>, <<"Medic", "Sage", "Monk">> >> }

InitValidator == InitCommon(ValidatorRosters, 1) /\ pc = "validator"

\* a lethal take_damage on a combatant of roster 1
Faint ==
    /\ pc = "validator"
    /\ \E i \in Idx, damage \in DamageInputs :
          chars' = [chars EXCEPT ![1][i] = take_damage(@, damage).char]
    /\ op' = "take_damage"
    /\ raised' = "none"
    /\ result' = None
    /\ UNCHANGED <<active_index, current_cooldown, sessionVars, loopVars>>

\* apply_status_effect(StatusEffect.STUN) on a combatant of roster 1
Stun ==
    /\ pc = "validator"
    /\ \E i \in Idx :
          chars' = [chars EXCEPT ![1][i] = apply_status_effect(@, "stun")]
    /\ op' = "apply_status_effect"
    /\ raised' = "none"
    /\ result' = None
    /\ UNCHANGED <<active_index, current_cooldown, sessionVars, loopVars>>

\* Ability.use of any ability
Use ==
    /\ pc = "validator"
    /\ \E a \in AbilityIds : current_cooldown' = use(current_cooldown, a)
    /\ op' = "use"
    /\ raised' = "none"
    /\ result' = None
    /\ UNCHANGED <<chars, active_index, sessionVars, loopVars>>

\* Ability.reduce_cooldown of any ability
ReduceCooldown ==
    /\ pc = "validator"
    /\ \E a \in AbilityIds : current_cooldown' = reduce_cooldown(current_cooldown, a)
    /\ op' = "reduce_cooldown"
    /\ raised' = "none"
    /\ result' = None
    /\ UNCHANGED <<chars, active_index, sessionVars, loopVars>>

\* can_use_ability(character, ability) for combatant i of roster 1
CanUseAbility ==
    /\ pc = "validator"
    /\ \E i \in Idx, a \in AbilityIds :
          /\ result' = can_use_ability(chars[1][i], current_cooldown, a)
          /\ last' = [character |-> i, ability |-> a]
    /\ op' = "can_use_ability"
    /\ raised' = "none"
    /\ UNCHANGED <<teamVars, sessionVars, pc, decided, first_player>>

NextValidator ==
    \/ Faint
    \/ Stun
    \/ Use
    \/ ReduceCooldown
    \/ CanUseAbility

SpecValidator == InitValidator /\ [][NextValidator]_vars

(***************************************************************************)
(* Properties of the session (SpecSession).                                *)
(***************************************************************************)
PhaseRank(p) == CASE p = "not_started" -> 0 [] p = "in_progress" -> 1 [] p = "finished" -> 2

TotalHp(t) == chars[t][0].current_hp + chars[t][1].current_hp + chars[t][2].current_hp

Defeated(t) == \A i \in Idx : chars[t][i].current_hp = 0

\* the side favoured by the total-HP rule: strictly greater total, side 1 on a tie
HpWinner == IF TotalHp(2) > TotalHp(1) THEN 2 ELSE 1

\* C2 (as claimed): no operation of the session ever moves the phase back to
\* an earlier one of not_started -> in_progress -> finished.
C2_PhaseNeverMovesBack == [][PhaseRank(phase') >= PhaseRank(phase)]_vars

\* C2 (amended): every operation of the session other than reset leaves the
\* phase where it is or moves it forward; reset alone returns to not_started.
C2_PhaseForwardExceptReset ==
    [][IF op' = "reset" THEN phase' = "not_started"
       ELSE PhaseRank(phase') >= PhaseRank(phase)]_vars

C2_Witness == op = "start_battle" /\ raised = "RuntimeError" /\ phase = "finished"

\* C3: start_battle succeeds only from not_started, setting current_turn to 1
\* and the phase to in_progress; from in_progress or finished it raises and
\* leaves phase, current_turn, winner_id and the ledger unchanged.
C3_StartBattle ==
    [][op' = "start_battle" =>
         IF phase = "not_started"
         THEN raised' = "none" /\ phase' = "in_progress" /\ current_turn' = 1
         ELSE /\ raised' = "RuntimeError"
              /\ UNCHANGED <<phase, current_turn, winner_id, action_history>>]_vars

C3_Witness ==
    /\ op = "start_battle" /\ raised = "RuntimeError" /\ phase = "in_progress"
    /\ current_turn > 1 /\ action_history # << >>

\* C4: once finished with winner w, a later end_battle(w') - called directly
\* or through advance_turn - leaves winner_id = w and the phase finished; an
\* end_battle(w') before that sets winner_id to w' and the phase to finished.
C4_EndBattleIdempotent ==
    [][/\ op' = "end_battle" =>
            /\ phase' = "finished"
            /\ winner_id' = IF phase = "finished" THEN winner_id ELSE result'
       /\ (op' = "advance_turn" /\ phase = "finished") =>
            (phase' = "finished" /\ winner_id' = winner_id)]_vars

C4_Witness == op = "end_battle" /\ phase = "finished" /\ result # winner_id

\* C5: advance_turn outside in_progress raises and leaves current_turn, phase
\* and winner_id unchanged; in_progress it adds exactly 1 to current_turn.
C5_AdvanceTurn ==
    [][op' = "advance_turn" =>
         IF phase = "in_progress"
         THEN raised' = "none" /\ current_turn' = current_turn + 1
         ELSE /\ raised' = "RuntimeError"
              /\ UNCHANGED <<current_turn, phase, winner_id>>]_vars

C5_Witness ==
    /\ op = "advance_turn" /\ raised = "RuntimeError"
    /\ phase = "finished" /\ current_turn <= max_turns

\* C6: when advance_turn takes current_turn above max_turns the session is
\* finished and the winner is the side with the strictly greater total HP,
\* side 1 on equal totals; otherwise it stays in_progress with no winner.
C6_MaxTurnsResolution ==
    [][(op' = "advance_turn" /\ phase = "in_progress") =>
         IF current_turn' > max_turns
         THEN phase' = "finished" /\ winner_id' = HpWinner
         ELSE phase' = "in_progress" /\ winner_id' = None]_vars

C6_Witness ==
    /\ op = "advance_turn" /\ raised = "none" /\ phase = "finished"
    /\ TotalHp(1) = TotalHp(2) /\ ~Defeated(1) /\ chars[1][0].current_hp = 0
    /\ winner_id = 1

\* C7: check_victory returns None iff neither team is defeated, the other side
\* when exactly one is, and when both are the side with the strictly greater
\* total HP, side 1 on equal totals.
C7_CheckVictory ==
    op = "check_victory" =>
        result = IF ~Defeated(1) /\ ~Defeated(2) THEN None
                 ELSE IF Defeated(1) /\ ~Defeated(2) THEN 2
                 ELSE IF Defeated(2) /\ ~Defeated(1) THEN 1
                 ELSE HpWinner

C7_Witness == op = "check_victory" /\ Defeated(1) /\ Defeated(2) /\ result = 1

\* C14: the ledger is append-only: record_action adds exactly one entry at
\* the end, stamped with the current turn number, and changes no earlier
\* entry; start_battle, advance_turn and end_battle leave the ledger
\* unchanged; so the turn numbers of the ledger never decrease in ledger
\* order.
C14_LedgerAppendOnly ==
    /\ [][/\ op' = "record_action" =>
               /\ Len(action_history') = Len(action_history) + 1
               /\ SubSeq(action_history', 1, Len(action_history)) = action_history
               /\ action_history'[Len(action_history')].turn_number = current_turn
               /\ current_turn' = current_turn
          /\ op' \in {"start_battle", "advance_turn", "end_battle"} =>
               action_history' = action_history]_vars
    /\ [](\A i \in 1 .. Len(action_history), j \in 1 .. Len(action_history) :
             i <= j => action_history[i].turn_number <= action_history[j].turn_number)

C14_Witness ==
    /\ op = "record_action" /\ Len(action_history) = 2
    /\ action_history[1].turn_number = 1 /\ action_history[2].turn_number = 2
    /\ action_history[1].player_id = 2 /\ action_history[2].player_id = 1

\* the ability of the action decided for player p, None for a basic attack
\* and for the other kinds of action
DecidedAbility(p) ==
    IF decided[p].action_type = "use_ability" THEN decided[p].ability ELSE NoAbility

\* C15: in the loop the side that acts first is the one the turn order
\* resolver names for the two active combatants and the decided actions: the
\* higher-priority ability first, whatever the speeds.
C15_OrderFromDecidedActions ==
    pc = "first" =>
        first_player = get_first_striker(active_character(TeamOf(1)),
                                         active_character(TeamOf(2)),
                                         DecidedAbility(1), DecidedAbility(2))

(***************************************************************************)
(* Properties of the orchestrated battle (SpecBattle, FairBattle).         *)
(***************************************************************************)
\* a side is about to act: the top of a turn, or before either call of
\* process_player_action
AboutToAct ==
    \/ pc = "decide" /\ phase = "in_progress"
    \/ pc \in {"first", "second"}

\* C1: run_battle terminates - the session eventually is finished with
\* winner_id 1 or 2 and the driver has left the loop - and no turn numbered
\* above max_turns is played: the loop body only runs, and the ledger only
\* holds entries, with a turn number in 1..max_turns.
C1_TerminatesByMaxTurns ==
    /\ <>(pc = "done" /\ phase = "finished" /\ winner_id \in Teams)
    /\ [](/\ pc \in {"first", "second", "end"} => current_turn \in 1 .. max_turns
          /\ \A k \in 1 .. Len(action_history) :
                action_history[k].turn_number \in 1 .. max_turns)

C1_Witness ==
    /\ pc = "done" /\ op = "return" /\ phase = "finished" /\ winner_id = 2
    /\ max_turns >= 2 /\ current_turn = max_turns + 1
    /\ ~Defeated(1) /\ ~Defeated(2) /\ action_history # << >>

\* C8: whenever a side is about to act, the active combatant of each roster
\* is alive unless the whole roster is defeated.
C8_ActiveAliveWhenActing ==
    AboutToAct =>
        \A t \in Teams : is_alive(active_character(TeamOf(t))) \/ Defeated(t)

\* C10: a combatant whose HP is 0 when its side's action is dispatched does
\* not act: the opponent loses no HP and gains no status effect, nothing is
\* healed and the side does not switch.
C10_FaintedNeverActs ==
    (op = "process_player_action" /\ last.dispatched /\ last.hp_at_dispatch = 0) =>
        /\ last.opponent_loss = 0
        /\ ~last.effect_applied
        /\ last.healed = 0
        /\ ~last.switched

\* the ledger entry k is the record of a stunned skip
StunnedSkip(k) == action_history[k].result_description = "Stunned - cannot act"

\* the ledger entry k records a use of Shield Bash, the one ability of the
\* cast that applies Stun
StunSource(k) ==
    /\ action_history[k].action_type = "use_ability"
    /\ action_history[k].ability_used = AbilityDefs["shield_bash"].name

\* C11: Stun lasts one turn: a combatant skipped as Stunned on one turn is
\* not skipped as Stunned again on a later turn unless it was stunned anew
\* (the opponent used a Stun ability on it) in between.
C11_StunLastsOneTurn ==
    \A i \in 1 .. Len(action_history), j \in 1 .. Len(action_history) :
        (/\ i < j
         /\ StunnedSkip(i) /\ StunnedSkip(j)
         /\ action_history[i].player_id = action_history[j].player_id
         /\ action_history[i].character_name = action_history[j].character_name)
        => \E k \in i + 1 .. j - 1 : StunSource(k)

\* the roster with these characters and this active index has sent in its
\* replacement for the combatant that fainted at index fainted: the first
\* living one in roster order, or nobody when none is left
FieldedAfterFaint(characters, index, fainted) ==
    LET alive == {i \in Idx : is_alive(characters[i])}
    IN  IF alive = {} THEN index = fainted
        ELSE index \in alive /\ \A j \in alive : index <= j

\* C12: when a side's attack or ability reduces the defending active
\* combatant to 0 HP, the defending roster's replacement is fielded by the end
\* of that action, before the other side's action of the turn; the second
\* action is then performed by the replacement when a survivor exists.
C12_AutoSwitchBeforeSecondAction ==
    [][/\ (op' = "process_player_action" /\ last'.target_fainted) =>
              FieldedAfterFaint(chars'[3 - last'.player],
                                active_index'[3 - last'.player], last'.target)
       /\ (/\ pc = "second" /\ op = "process_player_action" /\ last.target_fainted
           /\ op' = "process_player_action" /\ ~Defeated(3 - last.player)) =>
              /\ last'.player = 3 - last.player
              /\ last'.actor # last.target
              /\ last'.actor = active_index[last'.player]
              /\ last'.hp_at_dispatch > 0 \/ ~last'.dispatched]_vars

C12_Witness ==
    /\ pc = "end" /\ op = "process_player_action"
    /\ last.player = 1 /\ last.kind = "attack" /\ last.actor = 1
    /\ ~is_alive(chars[1][0]) /\ active_index[1] = 1
    /\ Len(action_history) = 4
    /\ action_history[3].turn_number = 2 /\ action_history[3].player_id = 2
    /\ action_history[3].target_name = "Brute"
    /\ action_history[4].turn_number = 2 /\ action_history[4].character_name = "Pyro"

\* C13: every attempted action - an attack, an ability use or a switch,
\* legal or not, and the skip of a stunned combatant - appends exactly one
\* entry to the ledger.
C13_OneRecordPerAction ==
    [][(/\ op' = "process_player_action"
        /\ last'.kind \in {"attack", "use_ability", "switch", "stunned"}) =>
           Len(action_history') = Len(action_history) + 1]_vars

(***************************************************************************)
(* Properties of the rosters (SpecTeam).                                   *)
(***************************************************************************)
\* C9: after construction and any sequence of switch_character,
\* switch_to_character and auto_switch_on_faint, exactly one combatant of a
\* team has is_active set, it is the one at active_index, and active_index
\* is in 0..2.
C9_OneActive ==
    \A t \in Teams :
        /\ active_index[t] \in Idx
        /\ \A i \in Idx : chars[t][i].is_active <=> (i = active_index[t])

C9_Witness ==
    /\ op = "auto_switch_on_faint" /\ last.player = 2 /\ result = 1
    /\ active_index[2] = 1 /\ active_index[1] = 2
    /\ chars[2][0].current_hp = 0 /\ chars[1][2].is_active

(***************************************************************************)
(* Properties of the turn order (SpecTurnOrder).                           *)
(***************************************************************************)
\* the priority an action acts with: that of its ability, 0 for a basic attack
PriorityOf(a) == IF a = NoAbility THEN 0 ELSE AbilityDefs[a].priority

\* C16: get_first_striker returns 1 or 2 for every pair of combatants and
\* abilities: the side with the strictly higher ability priority (0 for a
\* basic attack); on equal priority the side with the strictly higher speed;
\* on equal priority and speed side 1.
C16_FirstStriker ==
    op = "get_first_striker" =>
        LET p1 == PriorityOf(last.ability1)
            p2 == PriorityOf(last.ability2)
            s1 == Cast[last.char1].stats.speed
            s2 == Cast[last.char2].stats.speed
        IN  /\ result \in Teams
            /\ p1 > p2 => result = 1
            /\ p2 > p1 => result = 2
            /\ (p1 = p2 /\ s1 > s2) => result = 1
            /\ (p1 = p2 /\ s2 > s1) => result = 2
            /\ (p1 = p2 /\ s1 = s2) => result = 1

C16_Witness ==
    /\ op = "get_first_striker" /\ result = 2
    /\ last.char1 = "Sage" /\ last.ability1 = NoAbility
    /\ last.char2 = "Monk" /\ last.ability2 = "quick_attack"
(***************************************************************************)
(* Properties of one Character (SpecCharacter).                            *)
(***************************************************************************)
\* C17 as stated: for every combatant state and every amount, take_damage
\* returns a value r with 1 <= r <= current HP before the call, and the HP
\* after the call is the HP before minus r.
C17_TakeDamageAtLeastOne ==
    [][op' = "take_damage" =>
          /\ 1 <= result' /\ result' <= Subject.current_hp
          /\ Subject'.current_hp = Subject.current_hp - result']_vars

\* C17 amended: take_damage on a living combatant returns a value r with
\* 1 <= r <= current HP before the call; on a fainted combatant it returns 0;
\* in both cases the HP after the call is the HP before minus r, never
\* negative.
C17_TakeDamageReturn ==
    [][op' = "take_damage" =>
          /\ is_alive(Subject) => 1 <= result' /\ result' <= Subject.current_hp
          /\ ~is_alive(Subject) => result' = 0
          /\ Subject'.current_hp = Subject.current_hp - result'
          /\ Subject'.current_hp >= 0]_vars

C17_Witness ==
    /\ op = "take_damage" /\ result = 0
    /\ Subject.current_hp = 0 /\ Subject.total_damage_received = 100
\* C18: after any sequence of take_damage, heal, apply_status_effect and
\* process_status_effects calls (and hits) on a combatant, its current HP is
\* at least 0 and at most its maximum HP.
C18_HpWithinBounds ==
    \A t \in Teams, i \in Idx :
        0 <= chars[t][i].current_hp /\ chars[t][i].current_hp <= chars[t][i].stats.hp

C18_Witness ==
    /\ op = "heal" /\ result = 30
    /\ Subject.current_hp = Subject.stats.hp
    /\ Subject.total_damage_received = 30
    /\ has_status_effect(Subject, "shield")

\* the HP the claim expects a basic hit without variance to remove: defense
\* subtracted once from the typed damage, then halved by Shield, floor 1 at
\* each stage
ExpectedRemoved(attacker, defender) ==
    LET typed == (get_effective_attack(attacker)
                  * get_multiplier(attacker.char_class, defender.char_class)) \div 2
        afterDefense == Max(1, typed - defender.stats.defense)
    IN  IF has_status_effect(defender, "shield")
        THEN Max(1, PercentOf(afterDefense, 100 - ShieldReductionPercent))
        ELSE afterDefense

\* C19: a basic hit resolved and applied without variance removes from a
\* defender with enough HP max(1, typed - defense) HP, and
\* max(1, floor(max(1, typed - defense) x 0.5)) HP when the defender is
\* Shielded: 30 and 15 for attack 50 on defense 20 at multiplier 1.0.
C19_DefenseSubtractedOnce ==
    [][(/\ op' = "calculate_and_apply_damage"
        /\ Subject.current_hp >= ExpectedRemoved(Attacker, Subject)) =>
           Subject'.current_hp =
               Subject.current_hp - ExpectedRemoved(Attacker, Subject)]_vars

\* the active Burn entries of a combatant
BurnsOf(c) ==
    {k \in 1 .. Len(c.active_effects) : c.active_effects[k].effect = "burn"}

\* the damage the active Burn and Poison of a combatant ask for on the next
\* process_status_effects call, before the clamp to the current HP
TickTotal(c) ==
    LET k == FirstEffect(c.active_effects, "poison")
    IN  (IF has_status_effect(c, "burn")
         THEN PercentOf(c.stats.hp, BurnDamagePercent) ELSE 0)
        + (IF k # 0
           THEN PercentOf(c.stats.hp, PoisonInitialPercent
                    + PoisonIncrementPercent * c.active_effects[k].stack_count)
           ELSE 0)

\* C20: a Burn on a combatant with max HP 100 and enough HP lasts 3
\* process_status_effects calls from its application, deals exactly 5 on
\* each of them and is removed at the end of the last one; a call that finds
\* no Burn deals no Burn damage and leaves no Burn.
C20_BurnThreeTicks ==
    [][/\ (op' = "apply_status_effect" /\ result' = "burn") =>
              \A k \in BurnsOf(Subject') :
                  Subject'.active_effects[k].duration = 3
       /\ (/\ op' = "process_status_effects"
           /\ Subject.stats.hp = 100 /\ Subject.current_hp >= TickTotal(Subject)) =>
              \A k \in BurnsOf(Subject) :
                  /\ "burn" \in DOMAIN result' /\ result'["burn"] = 5
                  /\ Subject'.current_hp = Subject.current_hp - TickTotal(Subject)
                  /\ IF Subject.active_effects[k].duration = 1
                     THEN BurnsOf(Subject') = {}
                     ELSE \E j \in BurnsOf(Subject') :
                             Subject'.active_effects[j].duration =
                                 Subject.active_effects[k].duration - 1
       /\ (op' = "process_status_effects" /\ BurnsOf(Subject) = {}) =>
              "burn" \notin DOMAIN result' /\ BurnsOf(Subject') = {}
       /\ Cardinality(BurnsOf(Subject')) <= 1]_vars

C20_Witness ==
    /\ op = "process_status_effects"
    /\ "burn" \in DOMAIN result /\ result["burn"] = 5
    /\ Subject.current_hp = 85 /\ Subject.active_effects = << >>
    /\ Subject.total_damage_received = 0

\* the active Poison entries of a combatant
PoisonsOf(c) ==
    {k \in 1 .. Len(c.active_effects) : c.active_effects[k].effect = "poison"}

\* what the Poison entry e asks for on a combatant with maximum HP maxhp:
\* floor(maxHP x (5% + 5% x stack))
PoisonTick(maxhp, e) ==
    PercentOf(maxhp, PoisonInitialPercent + PoisonIncrementPercent * e.stack_count)

\* C21: a Poison applied to a combatant that has none starts with stack 0
\* and 4 turns; each process_status_effects call deals
\* floor(maxHP x (5% + 5% x stack)) clamped to the current HP (5, 10, 15, 20
\* on max HP 100 with enough HP), then adds 1 to the stack and takes 1 from
\* the duration, and the Poison is removed by the call that takes its
\* duration to 0.
C21_PoisonTicks ==
    [][/\ (/\ op' = "apply_status_effect" /\ result' = "poison"
           /\ PoisonsOf(Subject) = {}) =>
              \A k \in PoisonsOf(Subject') :
                  /\ Subject'.active_effects[k].stack_count = 0
                  /\ Subject'.active_effects[k].duration = 4
       /\ op' = "process_status_effects" =>
              \A k \in PoisonsOf(Subject) :
                 LET e == Subject.active_effects[k]
                     before == IF \E b \in BurnsOf(Subject) : b < k
                               THEN Subject.current_hp - result'["burn"]
                               ELSE Subject.current_hp
                 IN  /\ "poison" \in DOMAIN result'
                     /\ result'["poison"] = Min(PoisonTick(Subject.stats.hp, e), before)
                     /\ (Subject.stats.hp = 100 /\ e.stack_count < 4
                         /\ Subject.current_hp >= TickTotal(Subject)) =>
                            result'["poison"] = 5 * (e.stack_count + 1)
                     /\ IF e.duration = 1
                        THEN PoisonsOf(Subject') = {}
                        ELSE \E j \in PoisonsOf(Subject') :
                                /\ Subject'.active_effects[j].duration = e.duration - 1
                                /\ Subject'.active_effects[j].stack_count
                                       = e.stack_count + 1
       /\ (op' = "process_status_effects" /\ PoisonsOf(Subject) = {}) =>
              "poison" \notin DOMAIN result' /\ PoisonsOf(Subject') = {}]_vars

C21_Witness ==
    /\ op = "process_status_effects"
    /\ "poison" \in DOMAIN result /\ result["poison"] = 20
    /\ Subject.current_hp = 50 /\ Subject.active_effects = << >>
    /\ Subject.total_damage_received = 0

\* the active entries of a kind of a combatant
EntriesOf(c, effect) ==
    {k \in 1 .. Len(c.active_effects) : c.active_effects[k].effect = effect}

\* C22: a combatant holds at most one active effect per kind; applying a
\* kind that is already active resets that entry's duration to the default
\* of the kind (and, for Poison only, adds 1 to its stack count) and adds no
\* entry; applying an inactive kind adds one entry with the default duration
\* and stack 0.
C22_OneEffectPerKind ==
    /\ [](\A t \in Teams, i \in Idx, effect \in StatusEffect :
             Cardinality(EntriesOf(chars[t][i], effect)) <= 1)
    /\ [][op' = "apply_status_effect" =>
             LET effect == result'
                 old == Subject.active_effects
                 new == Subject'.active_effects
             IN  IF EntriesOf(Subject, effect) # {}
                 THEN /\ Len(new) = Len(old)
                      /\ \A k \in 1 .. Len(old) :
                            IF old[k].effect = effect
                            THEN /\ new[k].effect = effect
                                 /\ new[k].duration = EffectDuration(effect)
                                 /\ new[k].stack_count =
                                       IF effect = "poison"
                                       THEN old[k].stack_count + 1
                                       ELSE old[k].stack_count
                            ELSE new[k] = old[k]
                 ELSE new = Append(old, [effect |-> effect,
                                         duration |-> EffectDuration(effect),
                                         stack_count |-> 0])]_vars

C22_Witness ==
    /\ op = "apply_status_effect" /\ result = "poison"
    /\ Len(Subject.active_effects) = 2
    /\ Subject.active_effects[1] = [effect |-> "burn", duration |-> 2, stack_count |-> 0]
    /\ Subject.active_effects[2] = [effect |-> "poison", duration |-> 4, stack_count |-> 1]

(***************************************************************************)
(* Further properties of the rosters (SpecTeam).                           *)
(***************************************************************************)
\* the is_active flags of roster t
FlagsOf(cs) == [i \in Idx |-> cs[i].is_active]

\* C23: auto_switch_on_faint returns the active combatant and changes
\* nothing when it is alive; otherwise it makes the lowest-index living
\* combatant the active one and returns it; when nobody is alive it returns
\* None (-1 here) and leaves active_index and the is_active flags unchanged.
C23_AutoSwitchOnFaint ==
    [][op' = "auto_switch_on_faint" =>
          LET t == last'.player
              tm == TeamOf(t)
              alive == {i \in Idx : is_alive(chars[t][i])}
          IN  /\ chars'[3 - t] = chars[3 - t] /\ active_index'[3 - t] = active_index[3 - t]
              /\ is_alive(active_character(tm)) =>
                    /\ result' = active_index[t]
                    /\ active_index'[t] = active_index[t] /\ chars'[t] = chars[t]
              /\ (~is_alive(active_character(tm)) /\ alive # {}) =>
                    /\ result' \in alive /\ \A j \in alive : result' <= j
                    /\ active_index'[t] = result'
                    /\ FlagsOf(chars'[t]) = [i \in Idx |-> i = result']
                    /\ \A i \in Idx :
                          chars'[t][i].current_hp = chars[t][i].current_hp
              /\ alive = {} =>
                    /\ result' = -1
                    /\ active_index'[t] = active_index[t]
                    /\ FlagsOf(chars'[t]) = FlagsOf(chars[t])
                    /\ chars'[t] = chars[t]]_vars

C23_Witness ==
    /\ op = "auto_switch_on_faint" /\ last.player = 1 /\ last.actor = 1
    /\ result = 0 /\ active_index[1] = 0
    /\ ~is_alive(chars[1][1]) /\ is_alive(chars[1][0]) /\ is_alive(chars[1][2])
    /\ chars[1][0].is_active /\ ~chars[1][1].is_active

\* C24: switch_character(i) succeeds exactly when can_switch(roster, i)
\* allows it, i.e. when 0 <= i <= 2, i is not the active index and the
\* target is alive; on success the old active flag is cleared and combatant
\* i is the single active one; on failure it returns False and leaves
\* active_index and the is_active flags unchanged.
C24_SwitchMatchesCanSwitch ==
    [][op' = "switch_character" =>
          LET t == last'.player
              i == last'.target
              allowed == /\ 0 <= i /\ i <= 2
                         /\ i # active_index[t]
                         /\ is_alive(chars[t][i])
          IN  /\ can_switch(TeamOf(t), i)[1] <=> allowed
              /\ (result' = 1) <=> allowed
              /\ result' \in {0, 1}
              /\ allowed =>
                    /\ active_index'[t] = i
                    /\ FlagsOf(chars'[t]) = [j \in Idx |-> j = i]
              /\ ~allowed =>
                    /\ active_index'[t] = active_index[t]
                    /\ FlagsOf(chars'[t]) = FlagsOf(chars[t])]_vars

C24_Witness ==
    /\ op = "switch_character" /\ result = 0
    /\ last.player = 1 /\ last.target = 1
    /\ ~is_alive(chars[1][1]) /\ active_index[1] = 2 /\ chars[1][2].is_active

(***************************************************************************)
(* Properties of the legality checker (SpecValidator).                     *)
(***************************************************************************)
\* C25: can_use_ability(c, ability) allows the use iff c is alive, c is not
\* Stunned, the remaining cooldown of the ability is 0 and its required
\* class is absent or the class of c; when it refuses, the reason is that
\* of the first failing check in the order fainted, stunned, on cooldown,
\* wrong class; the check changes nothing.
C25_CanUseAbility ==
    /\ [](op = "can_use_ability" =>
            LET c == chars[1][last.character]
                a == last.ability
                alive == c.current_hp > 0
                stunned == \E k \in 1 .. Len(c.active_effects) :
                              c.active_effects[k].effect = "stun"
                ready == current_cooldown[a] = 0
                class_ok == \/ AbilityDefs[a].required_class = "none"
                            \/ AbilityDefs[a].required_class = c.char_class
            IN  /\ result[1] <=> (alive /\ ~stunned /\ ready /\ class_ok)
                /\ result[2] =
                      IF ~alive THEN "Character is fainted"
                      ELSE IF stunned THEN "Character is stunned"
                      ELSE IF ~ready THEN "Ability is on cooldown"
                      ELSE IF ~class_ok THEN "Character class cannot use this ability"
                      ELSE "")
    /\ [][op' = "can_use_ability" => UNCHANGED <<teamVars, sessionVars>>]_vars

C25_Witness ==
    /\ op = "can_use_ability"
    /\ result = <<FALSE, "Ability is on cooldown">>
    /\ chars[1][last.character].name = "Brute" /\ last.ability = "fireball"
    /\ current_cooldown["fireball"] = 1

(***************************************************************************)
(* Further properties of the orchestrated battle (SpecBattle).             *)
(***************************************************************************)
\* the acting combatant of player p as "Ejecutar accion" finds it, after its
\* status effects were processed
AtDispatch(p) == process_status_effects(active_character(TeamOf(p))).char

\* the action decided for player p is dispatched and is one the legality
\* checker refuses, or the Item kind
IllegalDispatch(p) ==
    /\ Dispatches(active_character(TeamOf(p)))
    /\ \/ decided[p].action_type = "item"
       \/ /\ decided[p].action_type = "use_ability"
          /\ ~can_use_ability(AtDispatch(p), current_cooldown, decided[p].ability)[1]
       \/ /\ decided[p].action_type = "switch"
          /\ ~can_switch(TeamOf(p), decided[p].switch_target)[1]

\* C26: dispatching an illegal action (an ability on cooldown or of the wrong
\* class, a switch to an invalid, fainted or already-active index, the Item
\* kind) raises no error and changes no combatant's HP, status effects or
\* ability cooldowns and no roster's active index, and the loop goes on to
\* the next side's action, or to the end of the turn.
C26_IllegalActionDoesNothing ==
    [][\A p \in Teams :
          (/\ pc \in {"first", "second"} /\ op' = "process_player_action"
           /\ last'.player = p /\ IllegalDispatch(p)) =>
              /\ raised' = "none"
              /\ chars' = [chars EXCEPT ![p][active_index[p]] = AtDispatch(p)]
              /\ current_cooldown' = current_cooldown
              /\ active_index' = active_index
              /\ phase' = phase /\ current_turn' = current_turn
              /\ pc' = IF pc = "first" THEN "second" ELSE "end"]_vars

C26_Witness ==
    /\ pc = "end" /\ op = "process_player_action" /\ current_turn = 2
    /\ last.player = 1 /\ last.kind = "use_ability" /\ last.actor = 0
    /\ ~is_alive(chars[1][1])
    /\ action_history # << >>
    /\ action_history[Len(action_history)].player_id = 2
    /\ action_history[Len(action_history)].target_name = "Pyro"

(***************************************************************************)
(* Further properties of one Character and its hits (SpecCharacter).       *)
(***************************************************************************)
\* C27: the final_damage of the result of calculate_and_apply_damage is the
\* HP the defender lost in the call, and the attacker's total_damage_dealt
\* and the defender's total_damage_received each grow by exactly that
\* amount, which is lower than the computed damage when that exceeded the
\* remaining HP.
C27_FinalDamageIsActual ==
    [][op' = "calculate_and_apply_damage" =>
          LET computed == calculate_basic_attack_damage(Attacker, Subject,
                                                        NoVariance).final_damage
          IN  /\ result' = Subject.current_hp - Subject'.current_hp
              /\ Attacker'.total_damage_dealt = Attacker.total_damage_dealt + result'
              /\ Subject'.total_damage_received =
                     Subject.total_damage_received + result'
              /\ result' <= computed
              /\ result' <= Subject.current_hp
              /\ Subject.current_hp < computed => result' < computed]_vars

C27_Witness ==
    /\ op = "calculate_and_apply_damage" /\ result = 5
    /\ Subject.current_hp = 0 /\ ~has_status_effect(Subject, "shield")
    /\ Subject.total_damage_received = 5 /\ Attacker.total_damage_dealt = 5

(***************************************************************************)
(* Properties of ability cooldowns in the orchestrated battle (SpecPreset).*)
(***************************************************************************)
\* the combatants whose list of abilities holds the Ability object a
HoldersOf(a) ==
    {h \in Teams \X Idx :
        \E k \in 1 .. Len(chars[h[1]][h[2]].abilities) :
            chars[h[1]][h[2]].abilities[k] = a}

\* the Ability object a ledger entry names
AbilityNamed(name) == CHOOSE a \in AbilityIds : AbilityDefs[a].name = name

\* C28: a cooldown of N >= 1 is the number of turns that must pass between
\* two uses: after a combatant used an ability (one no other combatant
\* holds) on turn t, its next successful use of it is on turn t + N + 1 or
\* later, the attempts of turns t+1 .. t+N being rejected.
C28_CooldownTurnsBetweenUses ==
    \A j, k \in DOMAIN action_history :
        LET earlier == action_history[j]
            later == action_history[k]
        IN  (/\ j < k
             /\ earlier.action_type = "use_ability"
             /\ later.action_type = "use_ability"
             /\ earlier.player_id = later.player_id
             /\ earlier.character_name = later.character_name
             /\ earlier.ability_used = later.ability_used
             /\ Cardinality(HoldersOf(AbilityNamed(earlier.ability_used))) = 1
             /\ AbilityDefs[AbilityNamed(earlier.ability_used)].cooldown >= 1) =>
                later.turn_number >
                    earlier.turn_number
                        + AbilityDefs[AbilityNamed(earlier.ability_used)].cooldown

\* C29: the end of every turn, which follows both sides' actions and comes
\* before the victory check, lowers the remaining cooldown of every ability
\* of each of the six combatants (active, benched or fainted) by exactly 1,
\* never below 0; and at every moment 0 <= current_cooldown <= cooldown.
C29_CooldownsReducedByOne ==
    /\ [](\A a \in AbilityIds :
             0 <= current_cooldown[a] /\ current_cooldown[a] <= AbilityDefs[a].cooldown)
    /\ [][(pc = "end" /\ pc' # "end") =>
             \A h \in Teams \X Idx :
                 \A k \in 1 .. Len(chars[h[1]][h[2]].abilities) :
                     LET a == chars[h[1]][h[2]].abilities[k]
                     IN  current_cooldown'[a] = Max(0, current_cooldown[a] - 1)]_vars

\* player p's process_player_action call of this step used an ability: the
\* ledger gained the entry of the use
UsedAbility(p) ==
    /\ op' = "process_player_action"
    /\ \E k \in (Len(action_history) + 1) .. Len(action_history') :
          /\ action_history'[k].action_type = "use_ability"
          /\ action_history'[k].player_id = p

\* C30: combatants built from templates share no mutable state: when a
\* combatant uses an ability and puts it on cooldown, the remaining cooldown
\* of every ability held by every other combatant of either roster is
\* unchanged.
C30_OthersCooldownsUnchanged ==
    [][\A p \in Teams :
          UsedAbility(p) =>
              \A h \in (Teams \X Idx) \ {<<p, active_index[p]>>} :
                  \A k \in 1 .. Len(chars[h[1]][h[2]].abilities) :
                      LET a == chars[h[1]][h[2]].abilities[k]
                      IN  current_cooldown'[a] = current_cooldown[a]]_vars

C32_EffectiveAttack ==
    [][op' = "get_effective_attack" =>
          LET base == Subject.stats.attack
              buff == has_status_effect(Subject, "buff")
              debuff == has_status_effect(Subject, "debuff")
          IN  /\ ~buff /\ ~debuff => result' = base
              /\ buff /\ ~debuff => result' = PercentOf(base, BuffAttackPercent)
              /\ ~buff /\ debuff => result' = PercentOf(base, DebuffAttackPercent)
              /\ buff /\ debuff =>
                    result' = PercentOf(PercentOf(base, BuffAttackPercent),
                                        DebuffAttackPercent)
              /\ base = 50 =>
                    result' = IF buff THEN (IF debuff THEN 45 ELSE 65)
                              ELSE (IF debuff THEN 35 ELSE 50)
              /\ UNCHANGED <<teamVars, sessionVars>>]_vars

C32_Witness ==
    /\ op = "get_effective_attack" /\ result = 45
    /\ Subject.stats.attack = 50
    /\ Len(Subject.active_effects) = 2
    /\ Subject.active_effects[1].effect = "debuff"
    /\ Subject.active_effects[2].effect = "buff"

(***************************************************************************)
(* Properties of the type table (SpecTypes).                               *)
(***************************************************************************)
\* the class pairs of multiplier 1.5 and of multiplier 0.5
SuperEffectivePairs ==
    { <<"warrior", "rogue">>, <<"rogue", "mage">>, <<"mage", "warrior">>,
      <<"mage", "tank">> }

NotVeryEffectivePairs ==
    { <<"warrior", "mage">>, <<"rogue", "warrior">>, <<"mage", "rogue">>,
      <<"warrior", "tank">>, <<"rogue", "tank">> }

\* C33: get_multiplier answers every one of the 5x5 class pairs with 0.5, 1.0
\* or 1.5 (kept as 1, 2, 3 halves): 1.5 exactly for Warrior->Rogue,
\* Rogue->Mage, Mage->Warrior and Mage->Tank, 0.5 exactly for Warrior->Mage,
\* Rogue->Warrior, Mage->Rogue, Warrior->Tank and Rogue->Tank, 1.0 for every
\* other pair, in particular with Support on either side.
C33_TypeTable ==
    op = "get_multiplier" =>
        LET pair == <<last.attacker_class, last.defender_class>>
        IN  /\ result \in {1, 2, 3}
            /\ result = 3 <=> pair \in SuperEffectivePairs
            /\ result = 1 <=> pair \in NotVeryEffectivePairs
            /\ "support" \in {pair[1], pair[2]} => result = 2

C33_Witness ==
    /\ op = "get_multiplier" /\ result = 3
    /\ last.attacker_class = "mage" /\ last.defender_class = "tank"

(***************************************************************************)
(* Properties of the damage estimate (SpecEstimate).                       *)
(***************************************************************************)
\* C34: estimate_damage mutates nothing: it returns (min, max) with
\* 1 <= min <= max, and the attacker's and the defender's HP, status effects
\* and damage counters, every ability's remaining cooldown and the
\* calculator's use_random_variance setting are the same after the call as
\* before it.
C34_EstimateMutatesNothing ==
    [][op' = "estimate_damage" =>
          /\ 1 <= result'[1] /\ result'[1] <= result'[2]
          /\ chars' = chars
          /\ active_index' = active_index
          /\ current_cooldown' = current_cooldown
          /\ last'.use_random_variance = last.use_random_variance]_vars

C34_Witness ==
    /\ op = "estimate_damage"
    /\ last.use_random_variance
    /\ result[1] < result[2]
    /\ has_status_effect(Subject, "buff")
    /\ current_cooldown["fireball"] > 0

(***************************************************************************)
(* Properties of the outcome of the orchestrated battle (SpecBattle).      *)
(***************************************************************************)
\* C35: the summary of a session the loop has finished reports as
\* total_turns the number of turns elapsed: the loop resolves the actions of
\* turns 1, 2, ... in order, so when the end of turn current_turn finishes the
\* session, by the victory check or by exceeding max_turns, total_turns is
\* that current_turn.
C35_TotalTurnsIsTurnsElapsed ==
    [][(pc = "end" /\ phase' = "finished") =>
          get_battle_summary(Battle, TeamOf(1), TeamOf(2))'.total_turns
              = current_turn]_vars

(***************************************************************************)
(* Properties of fainting (SpecCharacter; they hold of the battle too).    *)
(***************************************************************************)
\* C36: fainting is permanent: a combatant whose current HP is 0 still has
\* current HP 0 after every operation (take_damage, heal, applying, removing
\* and processing status effects, hits, switches and replacements), so no
\* roster's alive count ever increases.
C36_FaintingIsPermanent ==
    [][\A t \in Teams :
          /\ \A i \in Idx :
                chars[t][i].current_hp = 0 => chars'[t][i].current_hp = 0
          /\ get_alive_count(TeamOf(t))' <= get_alive_count(TeamOf(t))]_vars

C36_Witness ==
    /\ op = "heal" /\ result = 0
    /\ Subject.current_hp = 0
    /\ has_status_effect(Subject, "poison")
    /\ get_alive_count(TeamOf(1)) = 2

\* C37: whenever the loop's session is finished with winner w while the turn
\* counter has not exceeded max_turns, the roster of the other side is fully
\* defeated, and the roster of w is fully defeated only if both are.
C37_WinnerDefeatedTheOther ==
    (phase = "finished" /\ current_turn <= max_turns) =>
        /\ winner_id \in Teams
        /\ is_defeated(TeamOf(3 - winner_id))
        /\ is_defeated(TeamOf(winner_id)) =>
              is_defeated(TeamOf(1)) /\ is_defeated(TeamOf(2))

C37_Witness ==
    /\ phase = "finished" /\ current_turn <= max_turns
    /\ winner_id = 1 /\ op = "end_battle"
    /\ is_defeated(TeamOf(2)) /\ ~is_defeated(TeamOf(1))

\* C38: in every state of a session driven by the loop, winner_id is unset
\* exactly when the phase is NotStarted or InProgress, and is 1 or 2 exactly
\* when the phase is Finished.
C38_WinnerSetIffFinished ==
    /\ winner_id = None <=> phase \in {"not_started", "in_progress"}
    /\ winner_id \in Teams <=> phase = "finished"

C38_Witness ==
    /\ phase = "finished" /\ winner_id = 2
    /\ op = "advance_turn" /\ current_turn = max_turns + 1
    /\ ~is_defeated(TeamOf(1))

\* C39: every ability use the loop records was made by a combatant whose own
\* list of abilities holds that ability, also when the side's active
\* combatant was replaced between the decision and the execution of the
\* action.
C39_UsedAbilityIsOwn ==
    \A k \in DOMAIN action_history :
        LET rec == action_history[k]
        IN  rec.action_type = "use_ability" =>
                \E i \in Idx :
                    /\ chars[rec.player_id][i].name = rec.character_name
                    /\ <<rec.player_id, i>> \in HoldersOf(AbilityNamed(rec.ability_used))

(***************************************************************************)
(* Properties of the turn counter of a session never reset (SpecDriven).   *)
(***************************************************************************)
\* C40: in a session with max_turns >= 1 driven by start_battle,
\* advance_turn and end_battle and never reset, current_turn is 0 while the
\* phase is NotStarted, between 1 and max_turns while it is InProgress, at
\* most max_turns + 1 once it is Finished, and it never decreases.
C40_TurnCounterRange ==
    /\ [](/\ max_turns >= 1
          /\ phase = "not_started" => current_turn = 0
          /\ phase = "in_progress" => 1 <= current_turn /\ current_turn <= max_turns
          /\ phase = "finished" => current_turn <= max_turns + 1)
    /\ [][current_turn' >= current_turn]_vars

C40_Witness ==
    /\ phase = "finished" /\ op = "advance_turn" /\ raised = "none"
    /\ max_turns = MaxTurnsBound /\ current_turn = max_turns + 1

====
